---- MODULE Spec2Model ----
(***************************************************************************)
(* Model of the DMR master core: the peer registry (dmrtools/peer.py), the *)
(* peer controller state machine (dmrtools/peer_controller.py), the auth   *)
(* policies (dmrtools/auth.py), the call tracker (dmrtools/call.py) and    *)
(* the dispatcher (dmrtools/dispatcher.py).                                *)
(*                                                                         *)
(* A datagram is modelled by the fields the factory parses out of it; a    *)
(* Peer or Call object is modelled by an identity (objects are compared by *)
(* identity in the Python sets) mapped to the record of its attributes.    *)
(* time() is the variable now; it is constant during one handler.          *)
(***************************************************************************)
EXTENDS Integers, Sequences, FiniteSets, TLC

VARIABLES
    peer_auth,   \* Dispatcher.peer_auth: the installed auth policy
    phase,       \* "config" while DMRMaster.config() may run, then "running"
    now,         \* the value time() returns
    ticks,       \* number of clock advances so far (bounds the model)
    peers,       \* PeerKeeper.peers: Peer object identity -> its attributes
    calls,       \* CallKeeper.calls: identities of the Call objects of the active set
    calls_log,   \* CallKeeper.calls_log: identities of the Call objects of the log set
    call,        \* Call object identity -> its attributes (objects of calls_log and calls)
    login_id,    \* for each peer in AUTH, the id of the RPTL its salt was issued for
    heard,       \* for each registered peer, when the last datagram from it arrived
    handled,     \* the packet class of the datagram the last handler received
    sent,        \* datagrams handed to sender.send_dg by the last handler, in order
    log,         \* the peers the last maintenance pass logged as "timed out"
    error,       \* the unhandled exception the last handler ended in, or "none"
    intercepted, \* the (call, packet) pairs the last handler passed to the application interceptor
    lcs,         \* EmbLCAssembler.lcs: the fragments collected so far
    vseq,        \* EmbLCAssembler.vseq: the vseq of the last packet collected
    fed,         \* the bits bytes of the packets passed to the assembler since it was built or reset()
    data,        \* DMRPPacketData._data: the bytes of one packet at the offsets of Offsets
    result,      \* what the last call of the assembler or of a field setter returned or raised
    made,        \* a packet object the master or a test builds: its class and its bytes
    parsed       \* what DMRPPacketFactory.fd made of the bytes of that packet

dispatcher == <<peer_auth, phase, now, ticks, peers, login_id, heard, calls, calls_log,
                call, handled, sent, log, error, intercepted>>
codec == <<lcs, vseq, fed, data, result, made, parsed>>
vars == <<dispatcher, codec>>

----------------------------------------------------------------------------
(* Bounds of the model *)

MaxTicks == 3
MaxCalls == 2

(* Source addresses, peer ids, salts, configurations and clock steps       *)
(* the environment draws its inputs from.                                  *)
Addrs == {"A", "B", "C"}
PeerIds == {0, 1, 2}
Salts == {1, 2}
Configs == {"cfg1"}
TickSteps == {1, 4, 60, 125}

----------------------------------------------------------------------------
(* Program constants *)

PING_TIMEOUT == 130
UNIT_TIMEOUT == 3600
DEAD_TIMEOUT == 5
CLEAN_TIMEOUT == 60
CLEAN_LOG_TIMEOUT == 21600

NoSalt == 0       \* Peer.auth_salt is None
NoTime == -1      \* Call.end_time is None
NoConfig == ""    \* Peer.config is the empty dict

----------------------------------------------------------------------------
(* Auth policies (auth.py) *)

(* calc_password_hash: SHA-256 over salt followed by the password, taken as *)
(* collision free: the digest determines the pair it was computed from.    *)
calc_password_hash(salt, password) == <<salt, password>>

NoHash == <<NoSalt, "">>   \* the pass_hash field of a packet that has none

Passwords == {"pass1"}
PassHashes == {calc_password_hash(s, w) : s \in Salts, w \in Passwords}

(* The dict handed to ListPeerAuth: id 1 with a password, id 2 with the    *)
(* empty password.                                                         *)
allowed_peers == (1 :> "pass1") @@ (2 :> "")

Policies == {"DenyAllPeerAuth", "AllowAllPeerAuth", "ListPeerAuth"}

allow_peer_id_default_allow(policy, peer_id) ==
    CASE policy = "ListPeerAuth" -> peer_id \in DOMAIN allowed_peers
      [] OTHER -> TRUE

allow_peer_id(policy, peer_id) ==
    CASE policy = "AllowAllPeerAuth" -> TRUE
      [] policy = "DenyAllPeerAuth" -> FALSE
      [] OTHER -> peer_id \in DOMAIN allowed_peers

check_password(policy, peer_id, salt, pass_hash) ==
    CASE policy = "AllowAllPeerAuth" -> TRUE
      [] policy = "DenyAllPeerAuth" -> FALSE
      [] OTHER ->
           IF peer_id \notin DOMAIN allowed_peers THEN FALSE
           ELSE IF allowed_peers[peer_id] = "" THEN TRUE
           ELSE pass_hash = calc_password_hash(salt, allowed_peers[peer_id])

----------------------------------------------------------------------------
(* Packets (dmrproto/mmdvm_l1.py), by the fields the factory parses *)

Packet(type, peer_id) ==
    [type |-> type, peer_id |-> peer_id, pass_hash |-> NoHash, salt |-> NoSalt,
     config |-> NoConfig, src_id |-> 0, dst_id |-> 0, stream_id |-> 0,
     call_type |-> "GROUP", voice_type |-> "NONE"]

DMRPPacketLogin(peer_id) == Packet("DMRPPacketLogin", peer_id)
DMRPPacketAuth(peer_id, pass_hash) ==
    [Packet("DMRPPacketAuth", peer_id) EXCEPT !.pass_hash = pass_hash]
DMRPPacketConfig(peer_id, config) ==
    [Packet("DMRPPacketConfig", peer_id) EXCEPT !.config = config]
DMRPPacketPing(peer_id) == Packet("DMRPPacketPing", peer_id)
DMRPPacketPong(peer_id) == Packet("DMRPPacketPong", peer_id)
DMRPPacketRepeaterClose(peer_id) == Packet("DMRPPacketRepeaterClose", peer_id)
DMRPPacketMasterClose(peer_id) == Packet("DMRPPacketMasterClose", peer_id)
DMRPPacketAck(peer_id) == Packet("DMRPPacketAck", peer_id)
DMRPPacketSalt(salt) == [Packet("DMRPPacketSalt", 0) EXCEPT !.salt = salt]
DMRPPacketTalkerAlias(peer_id, src_id) ==
    [Packet("DMRPPacketTalkerAlias", peer_id) EXCEPT !.src_id = src_id]
DMRPPacketData(peer_id, src_id, dst_id, stream_id, call_type, voice_type) ==
    [Packet("DMRPPacketData", peer_id) EXCEPT
        !.src_id = src_id, !.dst_id = dst_id, !.stream_id = stream_id,
        !.call_type = call_type, !.voice_type = voice_type]

(* A datagram no registered packet class detects: DMRPPacketFactory.fd     *)
(* raises DMRPUnknownPacketTypeException.                                  *)
BadDatagram == Packet("", 0)

factory_parses(dg) == dg.type # ""

is_voice_term(p) == p.voice_type = "TERM"

----------------------------------------------------------------------------
(* Peer and PeerKeeper (peer.py) *)

Statuses == {"LOGIN", "AUTH", "CONFIG", "ACTIVE", "DEAD"}

StatusRank ==
    [st \in Statuses |-> CASE st = "LOGIN" -> 1 [] st = "AUTH" -> 2
                            [] st = "CONFIG" -> 3 [] st = "ACTIVE" -> 4
                            [] OTHER -> 5]

is_applicable_ge(current, test_status) ==
    StatusRank[current] >= StatusRank[test_status]

is_applicable_exact(current, test_status) == current = test_status

(* Peer.Status.is_applicable: LOGIN and DEAD are not in applicable_map and *)
(* match exactly; AUTH, CONFIG, ACTIVE accept the statuses up to their own. *)
is_applicable(current, test_status) ==
    CASE current = "AUTH" -> test_status \in {"LOGIN", "AUTH"}
      [] current = "CONFIG" -> test_status \in {"LOGIN", "AUTH", "CONFIG"}
      [] current = "ACTIVE" -> test_status \in {"LOGIN", "AUTH", "CONFIG", "ACTIVE"}
      [] OTHER -> current = test_status

NoUnits == [u \in {} |-> 0]   \* Peer.units is the empty dict

(* Peer.__init__ *)
NewPeer(t) ==
    [status |-> "LOGIN", peer_id |-> 0, auth_salt |-> NoSalt, active_time |-> t,
     config |-> NoConfig, units |-> NoUnits]

(* A Peer object is <<addr, n>>: its address, which never changes, and a    *)
(* number telling apart the objects created for that address.              *)
PeerAddr(o) == o[1]

(* Peer.check_timeout and Unit.check_timeout: TRUE while not timed out *)
peer_check_timeout_le(peer, t) == t - peer.active_time <= PING_TIMEOUT
peer_check_timeout(peer, t) == t - peer.active_time < PING_TIMEOUT
unit_check_timeout(active_time, t) == t - active_time < UNIT_TIMEOUT

(* Peer.update_active *)
update_active(peer, t) == [peer EXCEPT !.active_time = t]

(* Peer.update_unit *)
update_unit(peer, unit_id, t) ==
    [peer EXCEPT !.units =
        [u \in (DOMAIN peer.units) \cup {unit_id} |->
            IF u = unit_id THEN t ELSE peer.units[u]]]

die_keeps_id(peer) == [peer EXCEPT !.status = "DEAD"]

(* Peer.die *)
die(peer) == [peer EXCEPT !.status = "DEAD", !.peer_id = 0]

(* PeerKeeper.get_by_id, get_by_unit, get_active on a registry reg *)
get_by_id(reg, peer_id) == {o \in DOMAIN reg : reg[o].peer_id = peer_id}
get_by_unit(reg, unit_id) == {o \in DOMAIN reg : unit_id \in DOMAIN reg[o].units}
get_active(reg) == {o \in DOMAIN reg : reg[o].status = "ACTIVE"}

(* The Peer objects Call.route_to of some call still refers to *)
RoutedPeers == UNION {call[c].route_to.peers : c \in DOMAIN call}

(* The identity of the object Peer(addr) creates: one that no reference    *)
(* held by the registry or by a call designates.                           *)
FreshPeer(addr) ==
    LET used == {o[2] : o \in {x \in (DOMAIN peers) \cup RoutedPeers : x[1] = addr}}
    IN  <<addr, CHOOSE n \in 0..Cardinality(used) :
                    n \notin used /\ \A m \in 0..(n - 1) : m \in used>>

(* PeerKeeper.get_by_addr: the registered peer of the address, or a new one *)
HasLiveAddr(addr) ==
    \E o \in DOMAIN peers : PeerAddr(o) = addr /\ peers[o].status # "DEAD"
HasAddr(addr) == \E o \in DOMAIN peers : PeerAddr(o) = addr
get_by_addr(addr) ==
    IF HasAddr(addr) THEN CHOOSE o \in DOMAIN peers : PeerAddr(o) = addr
    ELSE FreshPeer(addr)

(* PeerKeeper.peers after get_by_addr(addr) *)
peers_after_get_new(addr) ==
    IF HasAddr(addr) THEN [peers EXCEPT ![get_by_addr(addr)] = NewPeer(now)]
    ELSE peers @@ (FreshPeer(addr) :> NewPeer(now))
peers_after_get(addr) ==
    IF HasAddr(addr) THEN peers ELSE peers @@ (FreshPeer(addr) :> NewPeer(now))

(* PeerKeeper.maintain: timed-out units removed, timed-out peers die, dead *)
(* peers removed from the registry.                                        *)
maintained_peer(peer, t) ==
    LET kept == {u \in DOMAIN peer.units : unit_check_timeout(peer.units[u], t)}
        p1 == [peer EXCEPT !.units = [u \in kept |-> peer.units[u]]]
    IN  IF ~peer_check_timeout(p1, t) THEN die(p1) ELSE p1

(* What maintain logs: "Peer {logname} timed out", the logname being the   *)
(* address and, unless 0, the peer_id; with the status the peer had        *)
timed_out_peers(reg, t) ==
    {[addr |-> PeerAddr(o), peer_id |-> reg[o].peer_id, status |-> reg[o].status] :
        o \in {x \in DOMAIN reg : ~peer_check_timeout(reg[x], t)}}

peer_keeper_maintain_keeps_dead(reg, t) ==
    [o \in DOMAIN reg |-> maintained_peer(reg[o], t)]
peer_keeper_maintain(reg, t) ==
    LET aged == [o \in DOMAIN reg |-> maintained_peer(reg[o], t)]
        dead_peers == {o \in DOMAIN aged : aged[o].status = "DEAD"}
    IN  [o \in (DOMAIN aged) \ dead_peers |-> aged[o]]

----------------------------------------------------------------------------
(* PeerController (peer_controller.py) *)

(* send_close(peer_id): MSTCL with the given id, or the peer's recorded id *)
(* when the given id is 0.                                                 *)
send_close(peer, peer_id) ==
    DMRPPacketMasterClose(IF peer_id # 0 THEN peer_id ELSE peer.peer_id)

send_ack_ok_zero(peer) == DMRPPacketAck(0)
send_ack_ok(peer) == DMRPPacketAck(peer.peer_id)
send_pong_zero(peer) == DMRPPacketPong(0)
send_pong(peer) == DMRPPacketPong(peer.peer_id)

(* The die() / send_close(p.peer_id) / return False sequence *)
RejectNoDie(peer, p) ==
    [peer |-> peer, out |-> <<send_close(peer, p.peer_id)>>, cont |-> FALSE]
Reject(peer, p) ==
    [peer |-> die(peer), out |-> <<send_close(die(peer), p.peer_id)>>, cont |-> FALSE]

(* process_packet of the controller of registry entry o for packet p; salt *)
(* is what random.randbytes(4) returns should a salt be issued. The result *)
(* is the peer afterwards, the packets sent to it, and the return value.   *)
process_packet(reg, o, p, salt) ==
    LET peer == reg[o] IN
    CASE p.type = "DMRPPacketRepeaterClose" ->
           [peer |-> die(peer), out |-> <<>>, cont |-> FALSE]
      [] p.type = "DMRPPacketData" ->
           IF ~is_applicable(peer.status, "ACTIVE") THEN Reject(peer, p)
           ELSE [peer |-> update_unit(update_active(peer, now), p.src_id, now),
                 out |-> <<>>, cont |-> TRUE]
      [] p.type = "DMRPPacketPing" ->
           IF ~is_applicable(peer.status, "ACTIVE") THEN Reject(peer, p)
           ELSE [peer |-> update_active(peer, now),
                 out |-> <<send_pong(peer)>>, cont |-> FALSE]
      [] p.type = "DMRPPacketLogin" ->
           IF ~is_applicable(peer.status, "LOGIN") THEN Reject(peer, p)
           ELSE IF get_by_id(reg, p.peer_id) # {} THEN Reject(peer, p)
           ELSE IF ~allow_peer_id(peer_auth, p.peer_id) THEN Reject(peer, p)
           ELSE [peer |-> [peer EXCEPT !.status = "AUTH", !.auth_salt = salt],
                 out |-> <<DMRPPacketSalt(salt)>>, cont |-> FALSE]
      [] p.type = "DMRPPacketAuth" ->
           IF ~is_applicable(peer.status, "AUTH") THEN Reject(peer, p)
           ELSE IF \/ peer.auth_salt = NoSalt
                   \/ ~check_password(peer_auth, p.peer_id, peer.auth_salt,
                                      p.pass_hash)
                THEN Reject(peer, p)
           ELSE LET np == [peer EXCEPT !.peer_id = p.peer_id, !.status = "CONFIG"]
                IN  [peer |-> np, out |-> <<send_ack_ok(np)>>, cont |-> FALSE]
      [] p.type = "DMRPPacketConfig" ->
           IF ~is_applicable(peer.status, "CONFIG") THEN Reject(peer, p)
           ELSE LET np == [peer EXCEPT !.status = "ACTIVE", !.config = p.config]
                IN  [peer |-> np, out |-> <<send_ack_ok(np)>>, cont |-> FALSE]
      [] OTHER -> [peer |-> peer, out |-> <<>>, cont |-> TRUE]

----------------------------------------------------------------------------
(* Call and CallKeeper (call.py) *)

RouteNone == [isNone |-> TRUE, peers |-> {}]        \* Call.route_to is None
RouteTo(S) == [isNone |-> FALSE, peers |-> S]       \* Call.route_to is the set S

(* Call.__init__ *)
NewCall(call_id, src_id, dst_id, peer_id, call_type, t) ==
    [call_id |-> call_id, src_id |-> src_id, dst_id |-> dst_id,
     peer_id |-> peer_id, call_type |-> call_type, start_time |-> t,
     last_packet_time |-> t, end_time |-> NoTime, packets |-> 0,
     route_to |-> RouteNone]

call_check_timeout(c, timeout, t) == t - c.last_packet_time < timeout
is_ended(c) == c.end_time # NoTime
is_dead_later(c, t) == ~is_ended(c) /\ t - c.last_packet_time > DEAD_TIMEOUT
is_dead(c, t) == ~is_ended(c) /\ ~call_check_timeout(c, DEAD_TIMEOUT, t)
to_be_cleaned_never(c, t) == FALSE
to_be_cleaned(c, t) == is_ended(c) /\ ~call_check_timeout(c, CLEAN_TIMEOUT, t)
to_be_cleaned_log(c, t) ==
    is_ended(c) /\ ~call_check_timeout(c, CLEAN_LOG_TIMEOUT, t)

(* Call.time *)
call_time(c) ==
    IF c.end_time = NoTime THEN c.last_packet_time - c.start_time
    ELSE c.end_time - c.start_time

(* Call.packet_received(self): the body, and the arity check Python makes   *)
(* of a call of it with nargs arguments after self (TypeError when they    *)
(* are not the none the signature declares).                               *)
packet_received(c, t) ==
    [c EXCEPT !.last_packet_time = t, !.packets = c.packets + 1]

packet_received_takes_packet(nargs) == nargs # 1
packet_received_raises(nargs) == nargs # 0

(* Call.end *)
call_end(c, by_timeout, t) ==
    [c EXCEPT !.end_time = IF by_timeout THEN c.last_packet_time ELSE t]

by_call_id_any(call_id) == calls

(* CallKeeper.by_call_id: the calls of the active set with that call_id *)
by_call_id(call_id) == {c \in calls : call[c].call_id = call_id}

(* The identity of a new Call object <<call_id, n>> *)
FreshCall(call_id) ==
    LET used == {c[2] : c \in {x \in DOMAIN call : x[1] = call_id}}
    IN  <<call_id, CHOOSE n \in 0..Cardinality(used) :
                       n \notin used /\ \A m \in 0..(n - 1) : m \in used>>

(* CallKeeper.maintain: the call sets and the call objects afterwards *)
call_keeper_maintain(t) ==
    LET dead_calls == {c \in calls : is_dead(call[c], t)}
        ended == [c \in DOMAIN call |->
                    IF c \in dead_calls THEN call_end(call[c], TRUE, t)
                    ELSE call[c]]
        clean_calls == {c \in calls : to_be_cleaned(ended[c], t)}
        clean_log == {c \in calls_log : to_be_cleaned_log(ended[c], t)}
        cs == calls \ clean_calls
        cl == calls_log \ clean_log
    IN  [calls |-> cs, calls_log |-> cl,
         call |-> [c \in cs \cup cl |-> ended[c]]]

----------------------------------------------------------------------------
(* Dispatcher (dispatcher.py) *)

NoAddr == "None"     \* the (None, None) origin of an injected packet

(* The orders in which a Python set of peers may be iterated *)
Orders(S) ==
    {f \in [1..Cardinality(S) -> S] :
        \A i, j \in 1..Cardinality(S) : i # j => f[i] # f[j]}

(* peer.peer_id as distribution reads it: a peer no longer registered was  *)
(* removed as DEAD, and die() had set its peer_id to 0.                    *)
target_peer_id(reg, o) == IF o \in DOMAIN reg THEN reg[o].peer_id ELSE 0

(* The targets distribute_by_peers iterates over *)
distribution_targets(reg, route) ==
    IF route.isNone THEN get_active(reg) ELSE route.peers

(* distribute_by_peers, iterating the targets in the given order: the      *)
(* datagrams handed to the sender.                                         *)
RECURSIVE distribute_by_peers(_, _, _, _)
distribute_by_peers(reg, p, orig_addr, order) ==
    IF order = <<>> THEN <<>>
    ELSE LET o == Head(order)
             rest == distribute_by_peers(reg, p, orig_addr, Tail(order))
         IN  IF orig_addr = PeerAddr(o) THEN rest
             ELSE <<[addr |-> PeerAddr(o),
                     p |-> [p EXCEPT !.peer_id = target_peer_id(reg, o)]]>>
                  \o rest

(* AppKeeper.process_call_packet(call, p) with the one interceptor that     *)
(* localmaster.py registers: what the interceptor is passed, the call as   *)
(* it is at that moment                                                    *)
process_call_packet(c, p) ==
    <<[call_id |-> c.call_id, is_ended |-> is_ended(c), packets |-> c.packets,
       is_voice_term |-> is_voice_term(p)]>>

(* dispatch_data_packet for packet p from orig_addr, where c is the call    *)
(* by_call_id found or the new Call object, and order the iteration order  *)
(* of the targets: the call sets, call objects, datagrams sent and the     *)
(* exception it ends in.                                                   *)
dispatch_data_packet_reroute(reg, p, orig_addr, c, order) ==
    LET isnew == c \notin calls
        peers_of_unit == get_by_unit(reg, p.dst_id)
        base == IF isnew
                THEN NewCall(p.stream_id, p.src_id, p.dst_id, p.peer_id,
                             p.call_type, now)
                ELSE [call[c] EXCEPT !.dst_id = p.dst_id,
                                     !.call_type = p.call_type]
        c0 == [base EXCEPT !.route_to =
                  IF p.call_type = "UNIT" /\ peers_of_unit # {}
                  THEN RouteTo(peers_of_unit) ELSE RouteNone]
        cs == calls \cup {c}
        cl == IF isnew THEN calls_log \cup {c} ELSE calls_log
        heap0 == [x \in (DOMAIN call) \cup {c} |-> IF x = c THEN c0 ELSE call[x]]
    IN  [calls |-> cs, calls_log |-> cl, call |-> heap0, sent |-> <<>>,
         error |-> "TypeError", intercepted |-> <<>>]
dispatch_data_packet(reg, p, orig_addr, c, order) ==
    LET isnew == c \notin calls
        peers_of_unit == get_by_unit(reg, p.dst_id)
        created == NewCall(p.stream_id, p.src_id, p.dst_id, p.peer_id,
                           p.call_type, now)
        c0 == IF ~isnew THEN call[c]
              ELSE IF p.call_type = "UNIT" /\ peers_of_unit # {}
                   THEN [created EXCEPT !.route_to = RouteTo(peers_of_unit)]
                   ELSE created
        cs == calls \cup {c}
        cl == IF isnew THEN calls_log \cup {c} ELSE calls_log
        heap0 == [x \in (DOMAIN call) \cup {c} |-> IF x = c THEN c0 ELSE call[x]]
    IN  IF packet_received_raises(1)
        THEN [calls |-> cs, calls_log |-> cl, call |-> heap0, sent |-> <<>>,
              error |-> "TypeError", intercepted |-> <<>>]
        ELSE LET c1 == packet_received(c0, now)
                 c2 == IF is_voice_term(p) THEN call_end(c1, FALSE, now) ELSE c1
             IN  [calls |-> cs, calls_log |-> cl,
                  call |-> [heap0 EXCEPT ![c] = c2],
                  sent |-> distribute_by_peers(reg, p, orig_addr, order),
                  error |-> "none",
                  intercepted |-> process_call_packet(c2, p)]

(* The route_to distribution uses for a data packet: that of the call c *)
data_route(reg, p, c) ==
    IF c \in calls THEN call[c].route_to
    ELSE IF p.call_type = "UNIT" /\ get_by_unit(reg, p.dst_id) # {}
         THEN RouteTo(get_by_unit(reg, p.dst_id))
         ELSE RouteNone

----------------------------------------------------------------------------
(* State after construction and the operations *)

NoPeer == <<NoAddr, 0>>

(* The ids the controller logs as "Login request from {logname} ({id})",   *)
(* kept for the peers of registry reg that are in AUTH; o is the peer      *)
(* whose login with peer_id was just accepted (NoPeer: none was).          *)
logins_after(reg, o, peer_id) ==
    [x \in {y \in DOMAIN reg : reg[y].status = "AUTH"} |->
        IF x = o THEN peer_id ELSE login_id[x]]

----------------------------------------------------------------------------
(* The DMRD packet's bits byte (dmrproto/mmdvm_l1.py) and the embedded-LC  *)
(* assembler (dmrproto/lc_util.py)                                         *)

(* The offsets of the packet the model keeps: the bits byte, the last byte *)
(* of peer_id before it and the first byte of stream_id after it           *)
BITS_OFFSET == 15
Offsets == {BITS_OFFSET - 1, BITS_OFFSET, BITS_OFFSET + 1}
Bytes == 0..255

(* a & b, a | b and ~a on the eight bits of a bytearray element *)
RECURSIVE BitAnd(_, _, _)
BitAnd(a, b, n) ==
    IF n = 0 THEN 0
    ELSE (a % 2) * (b % 2) + 2 * BitAnd(a \div 2, b \div 2, n - 1)
And8(a, b) == BitAnd(a, b, 8)
Not8(a) == 255 - a
Or8(a, b) == a + b - And8(a, b)

(* CallType of enums.py, and a value that is not a member of it *)
CallTypes == {"UNIT", "GROUP"}
NotACallType == "FOO"

(* What `call_type not in CallType` does with a value that is no member:   *)
(* Enum containment raises TypeError up to Python 3.11 and is False from   *)
(* Python 3.12 on, where set_call_type goes on to raise the field error    *)
NonMemberOutcomes == {"TypeError", "DMRPFieldOutOfRangeException"}

(* DMRPPacketData.get_slot, get_call_type, get_frame_type, get_vseq on the *)
(* packet bytes d                                                          *)
get_slot(d) == IF And8(d[BITS_OFFSET], 128) # 0 THEN 2 ELSE 1
get_call_type(d) == IF And8(d[BITS_OFFSET], 64) # 0 THEN "UNIT" ELSE "GROUP"
get_frame_type(d) == And8(d[BITS_OFFSET], 48) \div 16
get_vseq(d) == And8(d[BITS_OFFSET], 15)

(* The bits byte the four setters write *)
slot_bits(b, slot) == Or8(And8(b, Not8(128)), IF slot = 2 THEN 128 ELSE 0)
call_type_bits(b, call_type) ==
    Or8(And8(b, Not8(64)), IF call_type = "UNIT" THEN 64 ELSE 0)
frame_type_bits(b, frame_type) == Or8(And8(b, Not8(48)), frame_type * 16)
vseq_bits(b, v) == Or8(And8(b, Not8(15)), And8(v, 15))

(* No packet object: None *)
NoPacket == [cls |-> "None", data |-> <<>>]

(* VoiceType.from_value on the low six bits of the bits byte *)
VoiceType ==
    (0 :> "NONE") @@ (33 :> "HEAD") @@ (16 :> "BURST_A") @@ (1 :> "BURST_B")
    @@ (2 :> "BURST_C") @@ (3 :> "BURST_D") @@ (4 :> "BURST_E")
    @@ (5 :> "BURST_F") @@ (34 :> "TERM")
from_value(value) == IF value \in DOMAIN VoiceType THEN VoiceType[value] ELSE "NONE"
get_voice_type(bits) == from_value(And8(bits, 63))

(* EmbLCAssembler.VTYPE_N_MAP *)
VTYPE_N_MAP ==
    ("BURST_B" :> 0) @@ ("BURST_C" :> 1) @@ ("BURST_D" :> 2) @@ ("BURST_E" :> 3)

(* DMRPPacketData.get_emb_lc of a packet with bits byte bits whose voice   *)
(* burst carries the fragment emblc                                        *)
NoEmbLC == "None"
get_emb_lc(bits, emblc) ==
    IF get_voice_type(bits) \in {"BURST_A", "BURST_B", "BURST_C", "BURST_D",
                                 "BURST_E", "BURST_F"}
    THEN emblc ELSE NoEmbLC

----------------------------------------------------------------------------
(* When the last datagram of each peer of registry reg arrived; o is the   *)
(* peer the datagram being handled came from (NoPeer: a maintenance pass). *)
heard_after(reg, o) ==
    [x \in DOMAIN reg |-> IF x = o THEN now ELSE heard[x]]

(* Dispatcher.__init__: deny-all policy, empty registry and call sets *)
Init ==
    /\ peer_auth = "DenyAllPeerAuth"
    /\ phase = "config"
    /\ now = 0
    /\ ticks = 0
    /\ peers = [o \in {} |-> NewPeer(0)]
    /\ login_id = [o \in {} |-> 0]
    /\ heard = [o \in {} |-> 0]
    /\ calls = {}
    /\ calls_log = {}
    /\ call = [c \in {} |-> NewCall(0, 0, 0, 0, "GROUP", 0)]
    /\ handled = "none"
    /\ sent = <<>>
    /\ log = {}
    /\ error = "none"
    /\ intercepted = <<>>
    /\ lcs = <<>>
    /\ vseq = 0
    /\ fed = <<>>
    /\ data = [i \in Offsets |-> 0]
    /\ result = "none"
    /\ made = NoPacket
    /\ parsed = NoPacket

(* DMRMaster.set_peer_auth, called from config() before the event loop runs *)
set_peer_auth(policy) ==
    /\ phase = "config"
    /\ peer_auth' = policy
    /\ UNCHANGED codec
    /\ intercepted' = <<>>
    /\ handled' = "none"
    /\ sent' = <<>>
    /\ log' = {}
    /\ error' = "none"
    /\ UNCHANGED <<phase, now, ticks, peers, login_id, heard, calls, calls_log, call>>

(* The clock advances by d *)
Tick(d) ==
    /\ ticks < MaxTicks
    /\ now' = now + d
    /\ ticks' = ticks + 1
    /\ UNCHANGED codec
    /\ intercepted' = <<>>
    /\ handled' = "none"
    /\ sent' = <<>>
    /\ log' = {}
    /\ error' = "none"
    /\ UNCHANGED <<peer_auth, phase, peers, login_id, heard, calls, calls_log, call>>

(* Dispatcher.maintain: the registry's maintenance, then the call keeper's *)
maintain ==
    LET cm == call_keeper_maintain(now) IN
    /\ peers' = peer_keeper_maintain(peers, now)
    /\ login_id' = logins_after(peer_keeper_maintain(peers, now), NoPeer, 0)
    /\ heard' = heard_after(peer_keeper_maintain(peers, now), NoPeer)
    /\ calls' = cm.calls
    /\ calls_log' = cm.calls_log
    /\ call' = cm.call
    /\ phase' = "running"
    /\ UNCHANGED codec
    /\ intercepted' = <<>>
    /\ handled' = "none"
    /\ sent' = <<>>
    /\ log' = timed_out_peers(peers, now)
    /\ error' = "none"
    /\ UNCHANGED <<peer_auth, now, ticks>>

(* The datagrams out, sent by the controller to the peer at addr *)
ToPeer(addr, out) == [i \in 1..Len(out) |-> [addr |-> addr, p |-> out[i]]]

(* Dispatcher.recv_dg(data, addr): a datagram the factory cannot parse *)
recv_dg_unparsed(addr, dg) ==
    /\ ~factory_parses(dg)
    /\ UNCHANGED codec
    /\ intercepted' = <<>>
    /\ handled' = dg.type
    /\ peers' = peers_after_get(addr)
    /\ login_id' = login_id
    /\ heard' = heard_after(peers_after_get(addr), get_by_addr(addr))
    /\ sent' = <<>>
    /\ log' = {}
    /\ error' = "none"
    /\ phase' = "running"
    /\ UNCHANGED <<peer_auth, now, ticks, calls, calls_log, call>>

(* Dispatcher.recv_dg: a packet the controller consumes, or one that is     *)
(* neither DMRD nor DMRA                                                   *)
recv_dg_peer(addr, p, salt) ==
    LET o == get_by_addr(addr)
        r == process_packet(peers_after_get(addr), o, p, salt)
    IN  /\ factory_parses(p)
        /\ UNCHANGED codec
        /\ intercepted' = <<>>
        /\ handled' = p.type
        /\ ~r.cont \/ p.type \notin {"DMRPPacketData", "DMRPPacketTalkerAlias"}
        /\ peers' = [peers_after_get(addr) EXCEPT ![o] = r.peer]
        /\ login_id' = logins_after([peers_after_get(addr) EXCEPT ![o] = r.peer],
                                    IF r.out = <<DMRPPacketSalt(salt)>> THEN o ELSE NoPeer,
                                    p.peer_id)
        /\ heard' = heard_after(peers_after_get(addr), o)
        /\ sent' = ToPeer(addr, r.out)
        /\ log' = {}
        /\ error' = "none"
        /\ phase' = "running"
        /\ UNCHANGED <<peer_auth, now, ticks, calls, calls_log, call>>

(* Dispatcher.recv_dg: a DMRD the controller passes on to                  *)
(* dispatch_data_packet                                                    *)
recv_dg_data(addr, p) ==
    LET o == get_by_addr(addr)
        r == process_packet(peers_after_get(addr), o, p, NoSalt)
        reg == [peers_after_get(addr) EXCEPT ![o] = r.peer]
        found == by_call_id(p.stream_id)
    IN  /\ p.type = "DMRPPacketData"
        /\ UNCHANGED codec
        /\ handled' = p.type
        /\ r.cont
        /\ found # {} \/ Cardinality(DOMAIN call) < MaxCalls
        /\ \E c \in (IF found = {} THEN {FreshCall(p.stream_id)} ELSE found) :
           \E order \in Orders(distribution_targets(reg, data_route(reg, p, c))) :
              LET d == dispatch_data_packet(reg, p, addr, c, order)
              IN  /\ calls' = d.calls
                  /\ calls_log' = d.calls_log
                  /\ call' = d.call
                  /\ sent' = d.sent
                  /\ error' = d.error
                  /\ intercepted' = d.intercepted
        /\ peers' = reg
        /\ login_id' = logins_after(reg, NoPeer, 0)
        /\ heard' = heard_after(reg, o)
        /\ log' = {}
        /\ phase' = "running"
        /\ UNCHANGED <<peer_auth, now, ticks>>

(* Dispatcher.recv_dg: a DMRA the controller passes on to                  *)
(* dispatch_ta_packet                                                      *)
recv_dg_ta(addr, p) ==
    LET o == get_by_addr(addr)
        r == process_packet(peers_after_get(addr), o, p, NoSalt)
        reg == [peers_after_get(addr) EXCEPT ![o] = r.peer]
    IN  /\ p.type = "DMRPPacketTalkerAlias"
        /\ UNCHANGED codec
        /\ intercepted' = <<>>
        /\ handled' = p.type
        /\ r.cont
        /\ \E order \in Orders(distribution_targets(reg, RouteNone)) :
              sent' = distribute_by_peers(reg, p, addr, order)
        /\ peers' = reg
        /\ login_id' = logins_after(reg, NoPeer, 0)
        /\ heard' = heard_after(reg, o)
        /\ log' = {}
        /\ error' = "none"
        /\ phase' = "running"
        /\ UNCHANGED <<peer_auth, now, ticks, calls, calls_log, call>>

----------------------------------------------------------------------------
(* The datagrams the environment sends *)

LoginPackets == {DMRPPacketLogin(i) : i \in PeerIds}
AuthPackets ==
    {DMRPPacketAuth(i, h) : i \in PeerIds, h \in PassHashes}
    \cup {DMRPPacketAuth(2, calc_password_hash(s, allowed_peers[2])) : s \in Salts}
ConfigPackets == {DMRPPacketConfig(i, g) : i \in {1}, g \in Configs}
ControlPackets ==
    {DMRPPacketPing(1), DMRPPacketRepeaterClose(1), DMRPPacketAck(1)}
TalkerAliasPackets == {DMRPPacketTalkerAlias(1, 41)}

(* The handshake of two addresses under every policy, with maintenance     *)
(* passes and no clock                                                     *)
Next ==
    \/ \E policy \in Policies : set_peer_auth(policy)
    \/ maintain
    \/ \E addr \in {"A", "B"} : recv_dg_unparsed(addr, BadDatagram)
    \/ \E addr \in {"A", "B"}, p \in LoginPackets, salt \in Salts :
          recv_dg_peer(addr, p, salt)
    \/ \E addr \in {"A", "B"}, p \in AuthPackets \cup ConfigPackets \cup ControlPackets :
          recv_dg_peer(addr, p, NoSalt)

Spec == Init /\ [][Next]_vars

(* Three repeaters, each with an id and a unit of its own, that follow the *)
(* protocol under the allow-all policy of localmaster.py: handshake, then  *)
(* DMRD (one stream of group calls, one of unit calls to unit 42), DMRA    *)
(* and RPTCL; maintenance passes, no clock.                                *)
PeerIdOf == [a \in Addrs |-> CASE a = "A" -> 1 [] a = "B" -> 2 [] OTHER -> 3]
UnitOf == [a \in Addrs |-> IF a = "A" THEN 41 ELSE 42]
TheSalt == CHOOSE s \in Salts : TRUE
TheHash == calc_password_hash(TheSalt, "pass1")
StatusOf(addr) ==
    IF HasAddr(addr) THEN peers[get_by_addr(addr)].status ELSE "none"

(* The handshake packet a repeater at addr sends next *)
Handshake(addr) ==
    CASE StatusOf(addr) = "none" -> {DMRPPacketLogin(PeerIdOf[addr])}
      [] StatusOf(addr) = "AUTH" -> {DMRPPacketAuth(PeerIdOf[addr], TheHash)}
      [] StatusOf(addr) = "CONFIG" -> ConfigPackets
      [] OTHER -> {}

RoutingData(addr) ==
    {DMRPPacketData(PeerIdOf[addr], UnitOf[addr], 42, 7, "GROUP", "BURST_A"),
     DMRPPacketData(PeerIdOf[addr], UnitOf[addr], 42, 8, "UNIT", "BURST_A")}

NextRouting ==
    \/ set_peer_auth("AllowAllPeerAuth")
    \/ maintain
    \/ \E addr \in Addrs : \E p \in Handshake(addr) : recv_dg_peer(addr, p, TheSalt)
    \/ \E addr \in Addrs :
          /\ StatusOf(addr) = "ACTIVE"
          /\ recv_dg_peer(addr, DMRPPacketRepeaterClose(PeerIdOf[addr]), NoSalt)
    \/ \E addr \in Addrs : \E p \in RoutingData(addr) :
          /\ StatusOf(addr) = "ACTIVE"
          /\ recv_dg_data(addr, p)
    \/ \E addr \in Addrs, p \in TalkerAliasPackets :
          /\ StatusOf(addr) = "ACTIVE"
          /\ recv_dg_ta(addr, p)

SpecRouting == Init /\ [][NextRouting]_vars

(* One repeater that follows the protocol under the allow-all policy, with *)
(* the clock: handshake, then pings and the DMRD of one stream, with and   *)
(* without terminator; maintenance passes.                                 *)
TimedData ==
    {DMRPPacketData(1, 41, 42, 7, "GROUP", vt) : vt \in {"BURST_A", "TERM"}}

NextTimed ==
    \/ set_peer_auth("AllowAllPeerAuth")
    \/ \E d \in TickSteps : Tick(d)
    \/ maintain
    \/ \E p \in Handshake("A") : recv_dg_peer("A", p, TheSalt)
    \/ /\ StatusOf("A") = "ACTIVE"
       /\ recv_dg_peer("A", DMRPPacketPing(1), NoSalt)
    \/ \E p \in TimedData :
          /\ StatusOf("A") = "ACTIVE"
          /\ recv_dg_data("A", p)

SpecTimed == Init /\ [][NextTimed]_vars

(* Two repeaters under the default policy or the allow-all policy that     *)
(* send their datagrams in any order: handshake packets, pings, RPTCL,     *)
(* unparsable datagrams, DMRA, and DMRD of one stream (from A a unit call  *)
(* to unit 42, from B a group call to 41 that carries a peer_id which is   *)
(* not B's); maintenance passes, no clock.                                 *)
TrafficControl(addr) ==
    {DMRPPacketAuth(PeerIdOf[addr], TheHash), DMRPPacketPing(PeerIdOf[addr]),
     DMRPPacketRepeaterClose(PeerIdOf[addr])} \cup ConfigPackets

TrafficData(addr) ==
    IF addr = "A" THEN {DMRPPacketData(1, 41, 42, 7, "UNIT", "BURST_A")}
    ELSE {DMRPPacketData(3, 42, 41, 7, "GROUP", "BURST_A")}

NextTraffic ==
    \/ set_peer_auth("AllowAllPeerAuth")
    \/ maintain
    \/ \E addr \in {"A", "B"} : recv_dg_unparsed(addr, BadDatagram)
    \/ \E addr \in {"A", "B"} :
          recv_dg_peer(addr, DMRPPacketLogin(PeerIdOf[addr]), TheSalt)
    \/ \E addr \in {"A", "B"} :
          \E p \in TrafficControl(addr) \cup TrafficData(addr) :
             recv_dg_peer(addr, p, NoSalt)
    \/ \E addr \in {"A", "B"} : \E p \in TrafficData(addr) : recv_dg_data(addr, p)
    \/ \E addr \in {"A", "B"}, p \in TalkerAliasPackets : recv_dg_ta(addr, p)

SpecTraffic == Init /\ [][NextTraffic]_vars

----------------------------------------------------------------------------
(* Properties *)

Msg(addr, p) == [addr |-> addr, p |-> p]
Registered == DOMAIN peers
StatusAt(reg, addr) ==
    IF \E o \in DOMAIN reg : PeerAddr(o) = addr
    THEN reg[CHOOSE o \in DOMAIN reg : PeerAddr(o) = addr].status
    ELSE "none"

(* C1: for every peer id the registry holds at most one peer that is       *)
(* ACTIVE with that peer_id; stated here for the nonzero ids only, which   *)
(* the claim for every id includes.                                        *)
C1_OneActivePerId ==
    \A o1, o2 \in Registered :
        (/\ peers[o1].status = "ACTIVE"
         /\ peers[o1].peer_id # 0
         /\ peers[o2].status = "ACTIVE"
         /\ peers[o1].peer_id = peers[o2].peer_id) => o1 = o2

(* C2: when a peer of another address is in AUTH after its RPTL with an    *)
(* allowed id, an RPTL with the same id from a second address, new or in   *)
(* LOGIN, marks the second peer DEAD and sends it MSTCL with that id (and  *)
(* no salt).                                                               *)
C2_DuplicateLoginRejected ==
    [][\A a \in Addrs, id \in PeerIds, salt \in Salts :
        (/\ allow_peer_id(peer_auth, id)
         /\ StatusAt(peers, a) \in {"none", "LOGIN"}
         /\ \E o \in Registered :
               /\ PeerAddr(o) # a
               /\ peers[o].status = "AUTH"
               /\ login_id[o] = id
         /\ recv_dg_peer(a, DMRPPacketLogin(id), salt))
        => (/\ StatusAt(peers', a) = "DEAD"
            /\ sent' = <<Msg(a, DMRPPacketMasterClose(id))>>)]_vars

(* C3: a registered peer's peer_id is nonzero exactly when its status is   *)
(* CONFIG or ACTIVE.                                                       *)
C3_PeerIdIffConfigured ==
    \A o \in Registered :
        (peers[o].peer_id # 0) <=> (peers[o].status \in {"CONFIG", "ACTIVE"})

(* C4 as stated: under the allow-list policy, RPTL(id) from an address     *)
(* with no peer is answered with the salt and leaves the peer in AUTH; the *)
(* RPTK(id, hash of that salt and the password) that follows is answered   *)
(* with an ack carrying id and leaves the peer in CONFIG; the RPTC that     *)
(* follows is answered with an ack carrying id and leaves it ACTIVE.       *)
C4_LoginStep(a, id, salt) ==
    /\ StatusAt(peers', a) = "AUTH"
    /\ peers'[get_by_addr(a)].auth_salt = salt
    /\ peers'[get_by_addr(a)].peer_id = 0
    /\ sent' = <<Msg(a, DMRPPacketSalt(salt))>>

C4_AuthSteps ==
    /\ \A a \in Addrs, id \in DOMAIN allowed_peers :
          (/\ peer_auth = "ListPeerAuth"
           /\ StatusAt(peers, a) = "AUTH"
           /\ peers[get_by_addr(a)].peer_id = 0
           /\ login_id[get_by_addr(a)] = id
           /\ recv_dg_peer(a, DMRPPacketAuth(id,
                    calc_password_hash(peers[get_by_addr(a)].auth_salt,
                                       allowed_peers[id])), NoSalt))
          => (/\ StatusAt(peers', a) = "CONFIG"
              /\ peers'[get_by_addr(a)].peer_id = id
              /\ sent' = <<Msg(a, DMRPPacketAck(id))>>)
    /\ \A a \in Addrs, p \in ConfigPackets :
          (/\ peer_auth = "ListPeerAuth"
           /\ StatusAt(peers, a) = "CONFIG"
           /\ peers[get_by_addr(a)].peer_id \in DOMAIN allowed_peers
           /\ recv_dg_peer(a, p, NoSalt))
          => (/\ StatusAt(peers', a) = "ACTIVE"
              /\ peers'[get_by_addr(a)].peer_id = peers[get_by_addr(a)].peer_id
              /\ sent' = <<Msg(a, DMRPPacketAck(peers[get_by_addr(a)].peer_id))>>)

C4_HandshakeAnyRegistry ==
    [][/\ \A a \in Addrs, id \in DOMAIN allowed_peers, salt \in Salts :
             (/\ peer_auth = "ListPeerAuth"
              /\ StatusAt(peers, a) = "none"
              /\ recv_dg_peer(a, DMRPPacketLogin(id), salt))
             => C4_LoginStep(a, id, salt)
       /\ C4_AuthSteps]_vars

(* C4 amended: the same, provided no registered peer has the id as its     *)
(* peer_id when the RPTL arrives.                                          *)
C4_Handshake ==
    [][/\ \A a \in Addrs, id \in DOMAIN allowed_peers, salt \in Salts :
             (/\ peer_auth = "ListPeerAuth"
              /\ StatusAt(peers, a) = "none"
              /\ get_by_id(peers, id) = {}
              /\ recv_dg_peer(a, DMRPPacketLogin(id), salt))
             => C4_LoginStep(a, id, salt)
       /\ C4_AuthSteps]_vars

(* A peer that completed the handshake with id 1 and its password: ACTIVE, *)
(* the last ack just sent.                                                 *)
C4_Witness ==
    /\ peer_auth = "ListPeerAuth"
    /\ \E o \in Registered :
          /\ peers[o].status = "ACTIVE"
          /\ peers[o].peer_id = 1
          /\ peers[o].auth_salt # NoSalt
          /\ sent = <<Msg(PeerAddr(o), DMRPPacketAck(1))>>

(* What a policy's verification of pass_hash against salt comes to *)
Verifies(policy, peer_id, salt, pass_hash) ==
    \/ policy = "AllowAllPeerAuth"
    \/ /\ policy = "ListPeerAuth"
       /\ peer_id \in DOMAIN allowed_peers
       /\ \/ allowed_peers[peer_id] = ""
          \/ pass_hash = <<salt, allowed_peers[peer_id]>>

(* C5: an RPTK received by a peer in AUTH is accepted (peer_id set, status *)
(* CONFIG, one ack) exactly if the policy verifies its pass_hash against   *)
(* the peer's salt, and otherwise the peer is DEAD with peer_id 0 and is   *)
(* sent one MSTCL with the packet's peer_id; the peer's salt is the one     *)
(* last sent to it, and a peer in AUTH has one.                            *)
C5_AuthDecision ==
    [][/\ \A a \in Addrs, p \in AuthPackets :
             (/\ StatusAt(peers, a) = "AUTH"
              /\ recv_dg_peer(a, p, NoSalt))
             => LET o == get_by_addr(a) IN
                /\ peers[o].auth_salt # NoSalt
                /\ IF Verifies(peer_auth, p.peer_id, peers[o].auth_salt, p.pass_hash)
                   THEN /\ peers'[o].status = "CONFIG"
                        /\ peers'[o].peer_id = p.peer_id
                        /\ sent' = <<Msg(a, DMRPPacketAck(p.peer_id))>>
                   ELSE /\ peers'[o].status = "DEAD"
                        /\ peers'[o].peer_id = 0
                        /\ sent' = <<Msg(a, DMRPPacketMasterClose(p.peer_id))>>
       /\ \A o \in Registered \cap DOMAIN peers' :
             peers'[o].auth_salt # peers[o].auth_salt
             => sent' = <<Msg(PeerAddr(o), DMRPPacketSalt(peers'[o].auth_salt))>>]_vars

(* An RPTK with a hash of another salt was refused under the allow-list    *)
(* policy: the peer is DEAD, still holding the salt it was issued, and was *)
(* sent MSTCL with id 1.                                                   *)
C5_Witness ==
    /\ peer_auth = "ListPeerAuth"
    /\ \E o \in Registered :
          /\ peers[o].status = "DEAD"
          /\ peers[o].auth_salt # NoSalt
          /\ peers[o].config = NoConfig
          /\ sent = <<Msg(PeerAddr(o), DMRPPacketMasterClose(1))>>

(* The datagrams the handler sent are exactly those of the set S, each once *)
SentExactly(S) ==
    /\ Len(sent') = Cardinality(S)
    /\ {sent'[i] : i \in 1..Len(sent')} = S

(* Packet p as distribution sends it to the peer at addr b: a copy with    *)
(* the peer_id of that peer                                                *)
CopyFor(b, p) == Msg(b, [p EXCEPT !.peer_id = peers'[get_by_addr(b)].peer_id])

(* C6: when the peers of A, B and C are ACTIVE and one of them sends a     *)
(* DMRD of a group call, the packet is sent to each of the two others with *)
(* the receiver's own peer_id, and nothing else is sent.                   *)
C6_GroupBroadcast ==
    [][\A a \in Addrs : \A p \in RoutingData(a) :
          (/\ p.call_type = "GROUP"
           /\ \A b \in Addrs : StatusOf(b) = "ACTIVE"
           /\ recv_dg_data(a, p))
          => SentExactly({CopyFor(b, p) : b \in Addrs \ {a}})]_vars

(* C7: the first DMRD of a new stream of a unit call from an ACTIVE peer   *)
(* is sent to the peers whose unit table holds dst_id, the sender's        *)
(* address excepted, if there is such a peer, and otherwise to every       *)
(* ACTIVE peer but the sender.                                             *)
C7_UnitRouting ==
    [][\A a \in Addrs : \A p \in RoutingData(a) :
          (/\ p.call_type = "UNIT"
           /\ StatusOf(a) = "ACTIVE"
           /\ by_call_id(p.stream_id) = {}
           /\ recv_dg_data(a, p))
          => LET holders == get_by_unit(peers', p.dst_id)
                 targets == IF holders # {} THEN holders ELSE get_active(peers')
             IN  SentExactly({CopyFor(PeerAddr(o), p) :
                                 o \in {x \in targets : PeerAddr(x) # a}})]_vars

(* C8: after a DMRD that is not a terminator and opens a stream the active *)
(* set holds a call of the stream that is not ended; after a terminator    *)
(* DMRD it holds a call of the stream that is ended, at the time of the    *)
(* terminator, with time = end_time - start_time; a maintenance pass more  *)
(* than CLEAN_TIMEOUT after the last packet of an ended call removes it    *)
(* from the active set and, before CLEAN_LOG_TIMEOUT, leaves it in the log *)
(* set.                                                                    *)
C8_CallLifecycle ==
    [][/\ \A p \in TimedData :
             recv_dg_data("A", p)
             => \E c \in calls' :
                   /\ call'[c].call_id = p.stream_id
                   /\ (by_call_id(p.stream_id) = {} /\ ~is_voice_term(p))
                         => ~is_ended(call'[c])
                   /\ is_voice_term(p)
                         => /\ is_ended(call'[c])
                            /\ call'[c].end_time = now
                            /\ call_time(call'[c]) = now - call'[c].start_time
       /\ maintain
             => \A c \in calls :
                   (/\ is_ended(call[c])
                    /\ now - call[c].last_packet_time > CLEAN_TIMEOUT
                    /\ now - call[c].last_packet_time < CLEAN_LOG_TIMEOUT)
                   => c \notin calls' /\ c \in calls_log']_vars

(* C9: a maintenance pass that runs when an ACTIVE peer has sent nothing   *)
(* for PING_TIMEOUT or longer logs the peer as timed out (it is marked     *)
(* DEAD) and removes it from the registry.                                 *)
C9_SilentPeerRemoved ==
    [][maintain
       => \A o \in Registered :
             (/\ peers[o].status = "ACTIVE"
              /\ now - heard[o] >= PING_TIMEOUT)
             => /\ o \notin DOMAIN peers'
                /\ [addr |-> PeerAddr(o), peer_id |-> peers[o].peer_id,
                    status |-> "ACTIVE"] \in log']_vars

(* A maintenance pass has just timed out the ACTIVE peer of A, whose       *)
(* address has no peer now.                                                *)
C9_Witness ==
    /\ [addr |-> "A", peer_id |-> 1, status |-> "ACTIVE"] \in log
    /\ ~HasAddr("A")
    /\ now >= PING_TIMEOUT

(* C10: every call of the active set and of the log set has                *)
(* last_packet_time >= start_time and, when it is ended,                   *)
(* end_time >= last_packet_time.                                           *)
C10_CallTimesOrdered ==
    \A c \in calls \cup calls_log :
        /\ call[c].last_packet_time >= call[c].start_time
        /\ is_ended(call[c]) => call[c].end_time >= call[c].last_packet_time

(* A DMRD arrived, later than the call's start, for a stream whose call    *)
(* of the active set had been ended.                                       *)
C10_Witness ==
    /\ error = "TypeError"
    /\ calls # {}
    /\ \A c \in calls : is_ended(call[c]) /\ now > call[c].start_time

(* C11: a datagram from a peer that is DEAD, the last handler having        *)
(* rejected it with MSTCL, is answered with no datagram at all.             *)
C11_NoReplyToDeadPeer ==
    [][\A a \in Addrs, p \in LoginPackets \cup AuthPackets \cup ConfigPackets
                              \cup ControlPackets, salt \in Salts \cup {NoSalt} :
          (/\ StatusAt(peers, a) = "DEAD"
           /\ \E id \in PeerIds : sent = <<Msg(a, DMRPPacketMasterClose(id))>>
           /\ recv_dg_peer(a, p, salt))
          => sent' = <<>>]_vars

(* C12: a DMRA from a peer that is not ACTIVE (new, LOGIN, AUTH, CONFIG or  *)
(* DEAD) causes no datagram to be sent.                                    *)
C12_AliasOnlyFromActive ==
    [][\A a \in Addrs, p \in TalkerAliasPackets :
          (/\ StatusAt(peers, a) # "ACTIVE"
           /\ recv_dg_ta(a, p))
          => sent' = <<>>]_vars

(* C13: a DMRD from a peer that is not ACTIVE marks the peer DEAD, sends   *)
(* it one MSTCL with the packet's peer_id, and changes nothing else: the   *)
(* call sets and call objects, every unit table, every other peer.         *)
C13_DataFromInactive ==
    [][\A a \in {"A", "B"} : \A p \in TrafficData(a) :
          (/\ StatusAt(peers, a) # "ACTIVE"
           /\ recv_dg_peer(a, p, NoSalt) \/ recv_dg_data(a, p))
          => /\ StatusAt(peers', a) = "DEAD"
             /\ sent' = <<Msg(a, DMRPPacketMasterClose(p.peer_id))>>
             /\ error' = "none"
             /\ calls' = calls /\ calls_log' = calls_log /\ call' = call
             /\ \A o \in DOMAIN peers' :
                   IF o \in Registered
                   THEN /\ peers'[o].units = peers[o].units
                        /\ PeerAddr(o) # a => peers'[o] = peers[o]
                   ELSE PeerAddr(o) = a /\ peers'[o].units = NoUnits]_vars

(* B's peer, which had been issued a salt and holds no unit, has sent its  *)
(* DMRD, which carries peer_id 3, while A is ACTIVE: it is DEAD and was    *)
(* sent MSTCL with 3.                                                      *)
C13_Witness ==
    /\ handled = "DMRPPacketData"
    /\ StatusAt(peers, "B") = "DEAD"
    /\ sent = <<Msg("B", DMRPPacketMasterClose(3))>>
    /\ peers[get_by_addr("B")].auth_salt # NoSalt
    /\ peers[get_by_addr("B")].units = NoUnits
    /\ StatusAt(peers, "A") = "ACTIVE"

(* C14: an RPTL from a peer whose status is not LOGIN is not accepted: no  *)
(* salt is sent, the peer's salt is unchanged, and a peer in CONFIG or     *)
(* ACTIVE is not moved to AUTH.                                            *)
C14_LoginOnlyInLogin ==
    [][\A a \in Addrs, p \in LoginPackets, salt \in Salts :
          (/\ StatusAt(peers, a) \in {"AUTH", "CONFIG", "ACTIVE", "DEAD"}
           /\ recv_dg_peer(a, p, salt))
          => /\ \A i \in 1..Len(sent') : sent'[i].p.type # "DMRPPacketSalt"
             /\ peers'[get_by_addr(a)].auth_salt = peers[get_by_addr(a)].auth_salt
             /\ StatusAt(peers, a) \in {"CONFIG", "ACTIVE"}
                   => StatusAt(peers', a) # "AUTH"]_vars

(* C15: while the policy is the deny-all one the dispatcher was created    *)
(* with, every registered peer is in LOGIN or DEAD, every RPTL leaves its  *)
(* peer DEAD and is answered with one MSTCL carrying its id, and nothing   *)
(* but MSTCL is ever sent: no salt, no ack, no pong, no DMRD, no DMRA.     *)
C15_DenyAllByDefault ==
    [][peer_auth' = "DenyAllPeerAuth"
       => /\ \A o \in DOMAIN peers' : peers'[o].status \in {"LOGIN", "DEAD"}
          /\ \A i \in 1..Len(sent') : sent'[i].p.type = "DMRPPacketMasterClose"
          /\ \A a \in {"A", "B"} :
                recv_dg_peer(a, DMRPPacketLogin(PeerIdOf[a]), TheSalt)
                => /\ StatusAt(peers', a) = "DEAD"
                   /\ sent' = <<Msg(a, DMRPPacketMasterClose(PeerIdOf[a]))>>]_vars

(* Under the default policy B's RPTL was refused while A's peer, created   *)
(* by a datagram that is no RPTL, is in LOGIN.                             *)
C15_Witness ==
    /\ peer_auth = "DenyAllPeerAuth"
    /\ phase = "running"
    /\ handled = "DMRPPacketLogin"
    /\ StatusAt(peers, "B") = "DEAD"
    /\ sent = <<Msg("B", DMRPPacketMasterClose(2))>>
    /\ StatusAt(peers, "A") = "LOGIN"

(* C16: a datagram the factory cannot parse sends nothing, leaves the call *)
(* sets and call objects unchanged, and leaves every registered peer, the  *)
(* sender's included, as it was (status, peer_id, salt, last-active time,  *)
(* unit table).                                                            *)
C16_UnparsedDropped ==
    [][\A a \in {"A", "B"} :
          recv_dg_unparsed(a, BadDatagram)
          => /\ sent' = <<>>
             /\ error' = "none"
             /\ calls' = calls /\ calls_log' = calls_log /\ call' = call
             /\ \A o \in Registered :
                   /\ o \in DOMAIN peers'
                   /\ peers'[o].status = peers[o].status
                   /\ peers'[o].peer_id = peers[o].peer_id
                   /\ peers'[o].auth_salt = peers[o].auth_salt
                   /\ peers'[o].active_time = peers[o].active_time
                   /\ peers'[o].units = peers[o].units]_vars

(* An unparsable datagram has arrived from A (B has no peer, so it was not *)
(* B's), whose peer is ACTIVE and holds a unit, while a call is tracked.   *)
C16_Witness ==
    /\ handled = BadDatagram.type
    /\ \A o \in Registered : PeerAddr(o) = "A"
    /\ StatusAt(peers, "A") = "ACTIVE"
    /\ \E o \in Registered : peers[o].units # NoUnits
    /\ calls # {}

(* C17: the registry holds at most one peer per address; a handler adds a  *)
(* Peer object only for an address that had no peer, whatever the status   *)
(* of the one it had, and at most one; a peer created for an unparsable    *)
(* datagram is in LOGIN with peer_id 0.                                    *)
C17_OnePeerPerAddr ==
    [][/\ \A o1, o2 \in DOMAIN peers' : PeerAddr(o1) = PeerAddr(o2) => o1 = o2
       /\ \A o \in (DOMAIN peers') \ Registered :
             \A x \in Registered : PeerAddr(x) # PeerAddr(o)
       /\ \A a \in {"A", "B"} :
             recv_dg_unparsed(a, BadDatagram)
             => \A o \in (DOMAIN peers') \ Registered :
                   /\ PeerAddr(o) = a
                   /\ peers'[o].status = "LOGIN"
                   /\ peers'[o].peer_id = 0]_vars

(* An unparsable datagram from A, which had no peer, has created A's peer, *)
(* while B's peer is registered and DEAD.                                  *)
C17_Witness ==
    /\ handled = BadDatagram.type
    /\ \E o \in Registered : PeerAddr(o) = "A" /\ peers[o] = NewPeer(now)
    /\ StatusAt(peers, "B") = "DEAD"
    /\ sent = <<>>

(* C18: no step changes the route_to, dst_id or call_type of a call object *)
(* that exists before and after it.                                        *)
C18_RouteFixedAtCreation ==
    [][\A c \in (DOMAIN call) \cap (DOMAIN call') :
          /\ call'[c].route_to = call[c].route_to
          /\ call'[c].dst_id = call[c].dst_id
          /\ call'[c].call_type = call[c].call_type]_vars

(* The call of stream 7 was created by A's DMRD (unit call to 42, no peer  *)
(* holding 42 then, so broadcast); B's DMRD of the same stream, a group    *)
(* call to 41, came later and put 42 into B's unit table: the call is      *)
(* still a broadcast unit call to 42.                                      *)
C18_Witness ==
    /\ handled = "DMRPPacketData"
    /\ error = "TypeError"
    /\ get_by_unit(peers, 42) # {}
    /\ \E c \in calls :
          /\ call[c].src_id = 41
          /\ call[c].dst_id = 42
          /\ call[c].call_type = "UNIT"
          /\ call[c].route_to = RouteNone

----------------------------------------------------------------------------
(* The embedded-LC assembler fed with the voice packets of a stream *)

MaxFed == 5

(* The bits bytes of the packets fed: BURST_B..BURST_E, BURST_A, TERM and  *)
(* BURST_C on slot 2; the fragments their voice bursts carry               *)
VoiceBits == {1, 2, 3, 4, 16, 34, 130}
Fragments == {"f1", "f2"}

(* EmbLCAssembler.reset, called on the assembler by its owner *)
reset ==
    /\ lcs' = <<>>
    /\ vseq' = 0
    /\ fed' = <<>>
    /\ result' = "None"
    /\ UNCHANGED <<dispatcher, data, made, parsed>>

(* The state and the outcome of EmbLCAssembler.process_voicedata(p) for    *)
(* the assembler state (l, v); p has bits byte bits and fragment emblc     *)
voicedata_raises_uncounted(l, v, bits, emblc) ==
    LET burst_n == VTYPE_N_MAP[get_voice_type(bits)] IN
    \/ burst_n > 0 /\ get_vseq(BITS_OFFSET :> bits) # And8(v + 1, 255)
    \/ get_emb_lc(bits, emblc) = NoEmbLC

voicedata_raises(l, v, bits, emblc) ==
    LET burst_n == VTYPE_N_MAP[get_voice_type(bits)] IN
    \/ burst_n > 0 /\ get_vseq(BITS_OFFSET :> bits) # And8(v + 1, 255)
    \/ Len(l) # burst_n
    \/ get_emb_lc(bits, emblc) = NoEmbLC

process_voicedata(bits, emblc) ==
    /\ Len(fed) < MaxFed
    /\ fed' = Append(fed, bits)
    /\ IF get_voice_type(bits) \notin DOMAIN VTYPE_N_MAP
       THEN /\ result' = "False"
            /\ UNCHANGED <<lcs, vseq>>
       ELSE IF voicedata_raises(lcs, vseq, bits, emblc)
       THEN /\ lcs' = <<>>
            /\ vseq' = 0
            /\ result' = "EmbLCAssemblerException"
       ELSE /\ lcs' = Append(lcs, get_emb_lc(bits, emblc))
            /\ vseq' = get_vseq(BITS_OFFSET :> bits)
            /\ result' = IF VTYPE_N_MAP[get_voice_type(bits)] = 3 THEN "True" ELSE "False"
    /\ UNCHANGED <<dispatcher, data, made, parsed>>

NextAssembler ==
    \/ reset
    \/ \E bits \in VoiceBits, emblc \in Fragments : process_voicedata(bits, emblc)

SpecAssembler == Init /\ [][NextAssembler]_vars

(* The bursts an embedded LC is spread over, in order *)
BurstOrder == <<"BURST_B", "BURST_C", "BURST_D", "BURST_E">>

(* f is a non-empty prefix of BURST_B, BURST_C, BURST_D, BURST_E with vseq *)
(* increasing by one                                                       *)
InOrder(f) ==
    /\ Len(f) \in 1..4
    /\ \A i \in 1..Len(f) :
          /\ get_voice_type(f[i]) = BurstOrder[i]
          /\ i > 1 => get_vseq(BITS_OFFSET :> f[i]) = get_vseq(BITS_OFFSET :> f[i - 1]) + 1

(* C19: an assembler that starts empty and is fed BURST_B, BURST_C,        *)
(* BURST_D, BURST_E in that order with vseq increasing by one returns true *)
(* exactly on BURST_E and then holds four fragments (false and one         *)
(* fragment per packet before that); a burst of the four that is not the   *)
(* next one expected (out of order or repeated), or whose vseq is not the  *)
(* previous vseq plus one, raises EmbLCAssemblerException and leaves the   *)
(* assembler with no fragments and vseq 0.                                 *)
C19_EmbLCAssembly ==
    /\ [](InOrder(fed) =>
            /\ result = (IF Len(fed) = 4 THEN "True" ELSE "False")
            /\ Len(lcs) = Len(fed))
    /\ [][\A bits \in VoiceBits, emblc \in Fragments :
            (/\ process_voicedata(bits, emblc)
             /\ get_voice_type(bits) \in DOMAIN VTYPE_N_MAP
             /\ \/ VTYPE_N_MAP[get_voice_type(bits)] # Len(lcs)
                \/ get_vseq(BITS_OFFSET :> bits) # vseq + 1)
            => (result' = "EmbLCAssemblerException" /\ lcs' = <<>> /\ vseq' = 0)]_vars

(* BURST_B..BURST_E were collected and BURST_E, fed again, was refused *)
C19_Witness ==
    /\ Len(fed) = 5
    /\ InOrder(SubSeq(fed, 1, 4))
    /\ get_voice_type(fed[5]) = "BURST_E"
    /\ result = "EmbLCAssemblerException"
    /\ lcs = <<>>
    /\ vseq = 0

----------------------------------------------------------------------------
(* The fields of the bits byte of one DMRD packet *)

(* The values the setters are called with: the range of each field and the *)
(* integers next to it                                                     *)
SlotValues == 0..3
FrameTypeValues == -1..4
VseqValues == -1..16
CallTypeValues == CallTypes \cup {NotACallType}

(* The bytes next to the bits byte in the datagrams received *)
NeighbourBytes == {0, 255}

(* DMRPBasePacket.from_data, called by __init__ when the factory builds    *)
(* the packet of a datagram: once, before any setter is called             *)
from_data(d) ==
    /\ result = "none"
    /\ data' = d
    /\ result' = "None"
    /\ UNCHANGED <<dispatcher, lcs, vseq, fed, made, parsed>>

(* DMRPPacketData.set_slot *)
set_slot(slot) ==
    /\ IF ~(1 <= slot /\ slot <= 2)
       THEN /\ result' = "DMRPFieldOutOfRangeException"
            /\ data' = data
       ELSE /\ data' = [data EXCEPT ![BITS_OFFSET] = slot_bits(@, slot)]
            /\ result' = "None"
    /\ UNCHANGED <<dispatcher, lcs, vseq, fed, made, parsed>>

(* DMRPPacketData.set_call_type *)
set_call_type(call_type) ==
    /\ IF call_type \notin CallTypes
       THEN /\ result' \in NonMemberOutcomes
            /\ data' = data
       ELSE /\ data' = [data EXCEPT ![BITS_OFFSET] = call_type_bits(@, call_type)]
            /\ result' = "None"
    /\ UNCHANGED <<dispatcher, lcs, vseq, fed, made, parsed>>

(* DMRPPacketData.set_frame_type *)
set_frame_type(frame_type) ==
    /\ IF ~(0 <= frame_type /\ frame_type < 4)
       THEN /\ result' = "DMRPFieldOutOfRangeException"
            /\ data' = data
       ELSE /\ data' = [data EXCEPT ![BITS_OFFSET] = frame_type_bits(@, frame_type)]
            /\ result' = "None"
    /\ UNCHANGED <<dispatcher, lcs, vseq, fed, made, parsed>>

(* DMRPPacketData.set_vseq *)
set_vseq(v) ==
    /\ IF ~(0 <= v /\ v < 16)
       THEN /\ result' = "DMRPFieldOutOfRangeException"
            /\ data' = data
       ELSE /\ data' = [data EXCEPT ![BITS_OFFSET] = vseq_bits(@, v)]
            /\ result' = "None"
    /\ UNCHANGED <<dispatcher, lcs, vseq, fed, made, parsed>>

NextBits ==
    \/ \E bits \in Bytes, before \in NeighbourBytes, after \in NeighbourBytes :
          from_data((BITS_OFFSET - 1 :> before) @@ (BITS_OFFSET :> bits)
                    @@ (BITS_OFFSET + 1 :> after))
    \/ \E slot \in SlotValues : set_slot(slot)
    \/ \E call_type \in CallTypeValues : set_call_type(call_type)
    \/ \E frame_type \in FrameTypeValues : set_frame_type(frame_type)
    \/ \E v \in VseqValues : set_vseq(v)

SpecBits == Init /\ [][NextBits]_vars

(* The bytes of the packet other than the bits byte are the same in d, e *)
OtherBytesSame(d, e) == \A i \in Offsets \ {BITS_OFFSET} : d[i] = e[i]

(* C20: for slot in {1,2}, call_type in {UNIT, GROUP}, frame_type in 0..3  *)
(* and vseq in 0..15, setting one of the four fields of the bits byte and  *)
(* reading it back yields the value set, with the other three fields and   *)
(* all other bytes of the packet unchanged; a value outside the range      *)
(* raises DMRPFieldOutOfRangeException and changes nothing.                *)
C20_SlotField ==
    \A slot \in SlotValues : set_slot(slot) =>
        IF slot \in 1..2
        THEN /\ get_slot(data') = slot
             /\ get_call_type(data') = get_call_type(data)
             /\ get_frame_type(data') = get_frame_type(data)
             /\ get_vseq(data') = get_vseq(data)
             /\ OtherBytesSame(data', data)
        ELSE result' = "DMRPFieldOutOfRangeException" /\ data' = data
C20_CallTypeField ==
    \A call_type \in CallTypeValues : set_call_type(call_type) =>
        IF call_type \in CallTypes
        THEN /\ get_call_type(data') = call_type
             /\ get_slot(data') = get_slot(data)
             /\ get_frame_type(data') = get_frame_type(data)
             /\ get_vseq(data') = get_vseq(data)
             /\ OtherBytesSame(data', data)
        ELSE result' = "DMRPFieldOutOfRangeException" /\ data' = data
C20_FrameTypeField ==
    \A frame_type \in FrameTypeValues : set_frame_type(frame_type) =>
        IF frame_type \in 0..3
        THEN /\ get_frame_type(data') = frame_type
             /\ get_slot(data') = get_slot(data)
             /\ get_call_type(data') = get_call_type(data)
             /\ get_vseq(data') = get_vseq(data)
             /\ OtherBytesSame(data', data)
        ELSE result' = "DMRPFieldOutOfRangeException" /\ data' = data
C20_VseqField ==
    \A v \in VseqValues : set_vseq(v) =>
        IF v \in 0..15
        THEN /\ get_vseq(data') = v
             /\ get_slot(data') = get_slot(data)
             /\ get_call_type(data') = get_call_type(data)
             /\ get_frame_type(data') = get_frame_type(data)
             /\ OtherBytesSame(data', data)
        ELSE result' = "DMRPFieldOutOfRangeException" /\ data' = data
C20_BitsByte ==
    [][C20_SlotField /\ C20_CallTypeField /\ C20_FrameTypeField /\ C20_VseqField]_vars

----------------------------------------------------------------------------
(* Properties of the applicability check, shutdown, injection, maintenance *)

(* The statuses a packet can require of its peer *)
RequiredStatuses == {"LOGIN", "AUTH", "CONFIG", "ACTIVE"}

(* C24: for the status current of any registered peer (each of the five    *)
(* statuses occurs): if current is LOGIN, AUTH, CONFIG or ACTIVE,           *)
(* is_applicable(current, test) is true exactly when test is at or before   *)
(* current in the chain LOGIN < AUTH < CONFIG < ACTIVE (so never for test = *)
(* DEAD); if current is DEAD it is false for each of the four statuses a    *)
(* packet can require.                                                      *)
C24_Applicability ==
    \A o \in Registered, test \in Statuses :
        LET current == peers[o].status IN
        /\ current \in RequiredStatuses
              => (is_applicable(current, test)
                    <=> (/\ test \in RequiredStatuses
                         /\ StatusRank[test] <= StatusRank[current]))
        /\ (current = "DEAD" /\ test \in RequiredStatuses)
              => ~is_applicable(current, test)

(* Under the allow-all policy the only peer, DEAD, sent an RPTL, which was  *)
(* refused with MSTCL: LOGIN is not applicable for DEAD.                    *)
C24_Witness ==
    /\ peer_auth = "AllowAllPeerAuth"
    /\ handled = "DMRPPacketLogin"
    /\ \A o \in Registered : PeerAddr(o) = "A" /\ peers[o].status = "DEAD"
    /\ \E id \in PeerIds : sent = <<Msg("A", DMRPPacketMasterClose(id))>>

----------------------------------------------------------------------------
(* The master with its application and its shutdown *)

(* PeerKeeper.get_all on a registry reg *)
get_all_active(reg) == {o \in DOMAIN reg : reg[o].status = "ACTIVE"}
get_all(reg) == DOMAIN reg

(* Dispatcher.shutdown, called by DMRMaster.stop, which then drops the     *)
(* dispatcher and closes the transport: send_close() by the controller of  *)
(* every peer of the registry, in the iteration order of the set           *)
shutdown ==
    /\ phase # "stopped"
    /\ phase' = "stopped"
    /\ \E order \in Orders(get_all(peers)) :
          sent' = [i \in 1..Len(order) |->
                     [addr |-> PeerAddr(order[i]),
                      p |-> send_close(peers[order[i]], 0)]]
    /\ UNCHANGED codec
    /\ intercepted' = <<>>
    /\ handled' = "none"
    /\ log' = {}
    /\ error' = "none"
    /\ UNCHANGED <<peer_auth, now, ticks, peers, login_id, heard, calls, calls_log, call>>

(* Dispatcher.inject_packet(p): dispatch_data_packet with the origin       *)
(* (None, None)                                                            *)
inject_packet(p) ==
    LET found == by_call_id(p.stream_id) IN
    /\ phase = "running"
    /\ found # {} \/ Cardinality(DOMAIN call) < MaxCalls
    /\ \E c \in (IF found = {} THEN {FreshCall(p.stream_id)} ELSE found) :
       \E order \in Orders(distribution_targets(peers, data_route(peers, p, c))) :
          LET d == dispatch_data_packet(peers, p, NoAddr, c, order)
          IN  /\ calls' = d.calls
              /\ calls_log' = d.calls_log
              /\ call' = d.call
              /\ sent' = d.sent
              /\ error' = d.error
              /\ intercepted' = d.intercepted
    /\ UNCHANGED codec
    /\ handled' = "inject_packet"
    /\ log' = {}
    /\ UNCHANGED <<peer_auth, phase, now, ticks, peers, login_id, heard>>

(* The packets the application injects: the answer stream of a parrot, a   *)
(* unit call to unit 41 and its terminator as a group call                 *)
InjectedData ==
    {DMRPPacketData(2, 42, 41, 8, "UNIT", "BURST_A"),
     DMRPPacketData(2, 42, 41, 8, "GROUP", "TERM")}

(* The traffic of two repeaters, the injections of the application, and    *)
(* the shutdown that ends it all                                           *)
NextMaster ==
    \/ phase # "stopped" /\ NextTraffic
    \/ \E p \in InjectedData : inject_packet(p)
    \/ shutdown

SpecMaster == Init /\ [][NextMaster]_vars

(* C22: shutdown sends exactly one MSTCL to the address of every peer of   *)
(* the registry, whatever its status, carrying the peer's recorded         *)
(* peer_id, sends nothing else, and changes no peer and not the registry.  *)
C22_ShutdownClosesAll ==
    [][shutdown
       => /\ Len(sent') = Cardinality(Registered)
          /\ \A o \in Registered :
                \E i \in 1..Len(sent') :
                   sent'[i] = Msg(PeerAddr(o), DMRPPacketMasterClose(peers[o].peer_id))
          /\ peers' = peers]_vars

(* The master was shut down while A's peer was ACTIVE with id 1 and B's    *)
(* peer DEAD: each was sent its MSTCL.                                     *)
C22_Witness ==
    /\ phase = "stopped"
    /\ StatusAt(peers, "A") = "ACTIVE"
    /\ StatusAt(peers, "B") = "DEAD"
    /\ Len(sent) = 2
    /\ {sent[i] : i \in 1..Len(sent)} =
          {Msg("A", DMRPPacketMasterClose(1)), Msg("B", DMRPPacketMasterClose(0))}

(* C30: an RPTCL from an address whose peer is new or in any status leaves *)
(* the peer DEAD with peer_id 0 and otherwise as it was, sends no          *)
(* datagram, and changes no other peer and no call, whether or not the     *)
(* packet's peer_id is the peer's recorded id.                             *)
C30_RepeaterClose ==
    [][\A a \in {"A", "B"}, id \in PeerIds :
          recv_dg_peer(a, DMRPPacketRepeaterClose(id), NoSalt)
          => LET o == get_by_addr(a) IN
             /\ peers'[o] = [peers_after_get(a)[o] EXCEPT !.status = "DEAD", !.peer_id = 0]
             /\ sent' = <<>>
             /\ \A x \in Registered \ {o} : x \in DOMAIN peers' /\ peers'[x] = peers[x]
             /\ calls' = calls /\ calls_log' = calls_log /\ call' = call]_vars

(* B's peer, which had passed authentication under the list policy (its id *)
(* was 1 or 2) and sent its configuration, sent RPTCL with id 1 while A's   *)
(* peer is ACTIVE with id 1: B's peer is DEAD with id 0, nothing was sent.  *)
C30_Witness ==
    /\ handled = "DMRPPacketRepeaterClose"
    /\ peer_auth = "ListPeerAuth"
    /\ StatusAt(peers, "B") = "DEAD"
    /\ peers[get_by_addr("B")].peer_id = 0
    /\ peers[get_by_addr("B")].config # NoConfig
    /\ StatusAt(peers, "A") = "ACTIVE"
    /\ peers[get_by_addr("A")].peer_id = 1
    /\ sent = <<>>

(* C25: a maintenance pass ends every call of the active set that is not   *)
(* ended and whose last packet is DEAD_TIMEOUT old or older, with end_time *)
(* = last_packet_time and so the duration last_packet_time - start_time,   *)
(* and leaves in the active set, not ended, the calls whose last packet is *)
(* younger.                                                                *)
C25_DeadCallsEnded ==
    [][maintain
       => \A c \in calls :
             ~is_ended(call[c])
             => IF now - call[c].last_packet_time >= DEAD_TIMEOUT
                THEN /\ c \in DOMAIN call'
                     /\ call'[c].end_time = call[c].last_packet_time
                     /\ call'[c].last_packet_time = call[c].last_packet_time
                     /\ call_time(call'[c]) =
                           call[c].last_packet_time - call[c].start_time
                ELSE /\ c \in calls'
                     /\ call'[c] = call[c]]_vars

(* A maintenance pass exactly DEAD_TIMEOUT after the only packet of a call *)
(* has ended it; the call, created later than time 0, is still in the      *)
(* active set.                                                             *)
C25_Witness ==
    /\ handled = "none"
    /\ sent = <<>>
    /\ \E c \in calls :
          /\ is_ended(call[c])
          /\ call[c].start_time > 0
          /\ call[c].end_time = call[c].last_packet_time
          /\ now - call[c].last_packet_time = DEAD_TIMEOUT

(* C27: a maintenance pass times out a peer (logs it as timed out and      *)
(* marks it DEAD) only if PING_TIMEOUT or more has elapsed since the last  *)
(* datagram accepted from it, the handshake packets RPTL, RPTK and RPTC    *)
(* included.                                                               *)
C27_TimeoutFromLastHeard ==
    [][maintain
       => \A o \in Registered :
             [addr |-> PeerAddr(o), peer_id |-> peers[o].peer_id,
              status |-> peers[o].status] \in log'
             => now - heard[o] >= PING_TIMEOUT]_vars

----------------------------------------------------------------------------
(* The traffic of SpecTraffic with the periodic maintenance task, which    *)
(* runs again and again (Dispatcher.maintain_task)                         *)
SpecTrafficLive == SpecTraffic /\ WF_vars(maintain)

(* The identities a Peer object can have *)
PeerObjects == {<<a, n>> : a \in Addrs, n \in 0..(MaxCalls + 1)}

(* C28: after a maintenance pass the registry holds no DEAD peer; with the *)
(* maintenance task running again and again every peer that is DEAD is     *)
(* eventually out of the registry; and an RPTL from an address that has no *)
(* peer, with an id the policy allows and no registered peer holds,        *)
(* creates a peer that is in AUTH and is sent a salt.                      *)
C28_DeadPeersPruned ==
    /\ [][maintain => \A o \in DOMAIN peers' : peers'[o].status # "DEAD"]_vars
    /\ \A o \in PeerObjects :
          (o \in Registered /\ peers[o].status = "DEAD") ~> (o \notin Registered)
    /\ [][\A a \in {"A", "B"} :
            (/\ ~HasAddr(a)
             /\ allow_peer_id(peer_auth, PeerIdOf[a])
             /\ get_by_id(peers, PeerIdOf[a]) = {}
             /\ recv_dg_peer(a, DMRPPacketLogin(PeerIdOf[a]), TheSalt))
            => /\ FreshPeer(a) \in DOMAIN peers'
               /\ peers'[FreshPeer(a)] =
                     [NewPeer(now) EXCEPT !.status = "AUTH", !.auth_salt = TheSalt]
               /\ sent' = <<Msg(a, DMRPPacketSalt(TheSalt))>>]_vars

(* B's peer had been ACTIVE (the call its DMRD created is tracked), died   *)
(* and was removed by a maintenance pass; B's RPTL with id 2 then created  *)
(* a new peer, without configuration or units, now in AUTH with a salt.    *)
C28_Witness ==
    /\ handled = "DMRPPacketLogin"
    /\ sent = <<Msg("B", DMRPPacketSalt(TheSalt))>>
    /\ \E c \in calls : call[c].peer_id = 3
    /\ StatusAt(peers, "B") = "AUTH"
    /\ peers[get_by_addr("B")].config = NoConfig
    /\ peers[get_by_addr("B")].units = NoUnits
    /\ login_id[get_by_addr("B")] = 2

(* The peers a packet of the stream of p is distributed to once its call   *)
(* exists: those of the call's route_to, or every ACTIVE peer              *)
InjectionTargets(p) ==
    UNION {distribution_targets(peers', call'[c].route_to) :
              c \in {x \in calls' : call'[x].call_id = p.stream_id}}

(* C23: an injected DMRD is tracked by a call of the active set and sent   *)
(* to every peer of the call's route_to, or to every ACTIVE peer when the  *)
(* call has none, no peer being skipped, each copy with the receiver's     *)
(* peer_id; no peer and not the registry is changed.                       *)
C23_InjectedPacketDistributed ==
    [][\A p \in InjectedData :
          inject_packet(p)
          => /\ \E c \in calls' : call'[c].call_id = p.stream_id
             /\ Len(sent') = Cardinality(InjectionTargets(p))
             /\ \A o \in InjectionTargets(p) :
                   \E i \in 1..Len(sent') :
                      sent'[i] = Msg(PeerAddr(o),
                                     [p EXCEPT !.peer_id = target_peer_id(peers, o)])
             /\ peers' = peers]_vars

(* C26: each DMRD dispatched for a stream sets the last_packet_time of the *)
(* stream's call to now and increases its packet counter by one, from 0    *)
(* for a call the packet creates.                                          *)
C26_PacketsCounted ==
    [][\A p \in TimedData :
          recv_dg_data("A", p)
          => \E c \in calls' :
                /\ call'[c].call_id = p.stream_id
                /\ call'[c].last_packet_time = now
                /\ call'[c].packets =
                      (IF c \in calls THEN call[c].packets ELSE 0) + 1]_vars

(* C29: the interceptor is passed each DMRD dispatched, after the packet   *)
(* was accounted in its call and, for a voice terminator, after the call   *)
(* was ended.                                                              *)
C29_InterceptorAfterAccounting ==
    [][\A p \in TimedData :
          recv_dg_data("A", p)
          => /\ Len(intercepted') = 1
             /\ intercepted'[1].call_id = p.stream_id
             /\ intercepted'[1].packets >= 1
             /\ is_voice_term(p) => intercepted'[1].is_ended]_vars

----------------------------------------------------------------------------
(* The packet classes and their factory (dmrproto/mmdvm_l1.py,             *)
(* dmrproto/base_fields.py, dmrproto/factory.py). The bytes of a packet    *)
(* are a sequence; the byte at offset k of the code is element k + 1.      *)

(* DMRPPacketFactory.__init__: the classes, in the order from_data tries   *)
(* them                                                                    *)
FactoryClasses ==
    <<"DMRPPacketMasterNoAck",
      "DMRPPacketMasterClose",
      "DMRPPacketRepeaterClose",
      "DMRPPacketLogin",
      "DMRPPacketAck",
      "DMRPPacketAuth",
      "DMRPPacketConfig",
      "DMRPPacketPing",
      "DMRPPacketPong",
      "DMRPPacketSalt",
      "DMRPPacketBeacon",
      "DMRPPacketData",
      "DMRPPacketTalkerAlias">>
Classes == {FactoryClasses[i] : i \in 1..Len(FactoryClasses)}

(* PKT_TYPE of each class, in ASCII codes, and PKT_SIZE *)
PKT_TYPE ==
    [cls \in Classes |->
        CASE cls = "DMRPPacketMasterNoAck" -> <<77, 83, 84, 78, 65, 75>>   \* MSTNAK
          [] cls = "DMRPPacketMasterClose" -> <<77, 83, 84, 67, 76>>   \* MSTCL
          [] cls = "DMRPPacketRepeaterClose" -> <<82, 80, 84, 67, 76>>   \* RPTCL
          [] cls = "DMRPPacketLogin" -> <<82, 80, 84, 76>>   \* RPTL
          [] cls = "DMRPPacketAck" -> <<82, 80, 84, 65, 67, 75>>   \* RPTACK
          [] cls = "DMRPPacketAuth" -> <<82, 80, 84, 75>>   \* RPTK
          [] cls = "DMRPPacketConfig" -> <<82, 80, 84, 67>>   \* RPTC
          [] cls = "DMRPPacketPing" -> <<82, 80, 84, 80, 73, 78, 71>>   \* RPTPING
          [] cls = "DMRPPacketPong" -> <<77, 83, 84, 80, 79, 78, 71>>   \* MSTPONG
          [] cls = "DMRPPacketSalt" -> <<82, 80, 84, 65, 67, 75>>   \* RPTACK
          [] cls = "DMRPPacketBeacon" -> <<82, 80, 84, 83, 66, 75, 78>>   \* RPTSBKN
          [] cls = "DMRPPacketData" -> <<68, 77, 82, 68>>   \* DMRD
          [] cls = "DMRPPacketTalkerAlias" -> <<68, 77, 82, 65>>   \* DMRA
        ]
PKT_SIZE ==
    [cls \in Classes |->
        CASE cls = "DMRPPacketMasterNoAck" -> 10
          [] cls = "DMRPPacketMasterClose" -> 9
          [] cls = "DMRPPacketRepeaterClose" -> 9
          [] cls = "DMRPPacketLogin" -> 8
          [] cls = "DMRPPacketAck" -> 10
          [] cls = "DMRPPacketAuth" -> 40
          [] cls = "DMRPPacketConfig" -> 302
          [] cls = "DMRPPacketPing" -> 11
          [] cls = "DMRPPacketPong" -> 11
          [] cls = "DMRPPacketSalt" -> 10
          [] cls = "DMRPPacketBeacon" -> 11
          [] cls = "DMRPPacketData" -> 55
          [] cls = "DMRPPacketTalkerAlias" -> 15]

(* The fields of each class: kind, offset, bytelen. DMRPFieldPeerAuto puts *)
(* peer_id right after the PKT_TYPE; of the fourteen string fields of      *)
(* DMRPPacketConfig the first, a short one and the last are kept.          *)
Field(name, kind, offset, bytelen) ==
    [name |-> name, kind |-> kind, offset |-> offset, bytelen |-> bytelen]
DMRPFieldPeerAuto(cls) == Field("peer_id", "int", Len(PKT_TYPE[cls]), 4)
Fields(cls) ==
    CASE cls = "DMRPPacketSalt" -> {Field("salt", "bytes", 6, 4)}
      [] cls = "DMRPPacketAuth" ->
           {DMRPFieldPeerAuto(cls), Field("pass_hash", "bytes", 8, 32)}
      [] cls = "DMRPPacketConfig" ->
           {DMRPFieldPeerAuto(cls), Field("callsign", "str", 8, 8),
            Field("power", "str", 34, 2), Field("package_id", "str", 262, 40)}
      [] cls = "DMRPPacketTalkerAlias" ->
           {DMRPFieldPeerAuto(cls), Field("src_id", "int", 8, 3),
            Field("ta_data", "bytes", 11, 4), Field("ta_str", "str", 11, 4)}
      [] cls = "DMRPPacketData" ->
           {Field("seq", "int", 4, 1), Field("src_id", "int", 5, 3),
            Field("dst_id", "int", 8, 3), Field("peer_id", "int", 11, 4),
            Field("stream_id", "int", 16, 4), Field("bits", "int", 15, 1),
            Field("dmr_data", "bytes", 20, 33), Field("ber", "int", 53, 1),
            Field("rssi", "int", 54, 1)}
      [] OTHER -> {DMRPFieldPeerAuto(cls)}

(* DMRPBasePacket.create, and its override in DMRPPacketConfig: PKT_SIZE   *)
(* bytes, zero or 0x20, that start with the PKT_TYPE                       *)
create(cls) ==
    [cls |-> cls,
     data |-> [i \in 1..PKT_SIZE[cls] |->
                 IF i <= Len(PKT_TYPE[cls]) THEN PKT_TYPE[cls][i]
                 ELSE IF cls = "DMRPPacketConfig" THEN 32 ELSE 0]]

(* DMRPBasePacket.get_data *)
get_data(pkt) == pkt.data

(* DMRPFieldBase.get and set on the bytes d *)
field_get(d, f) == SubSeq(d, f.offset + 1, f.offset + f.bytelen)
field_set_raises(f, value) == f.bytelen # Len(value)
field_set(d, f, value) ==
    [i \in 1..Len(d) |->
        IF f.offset < i /\ i <= f.offset + f.bytelen THEN value[i - f.offset]
        ELSE d[i]]

(* int.to_bytes and int.from_bytes, byteorder big *)
RECURSIVE Pow256(_)
Pow256(n) == IF n = 0 THEN 1 ELSE 256 * Pow256(n - 1)
to_bytes(value, bytelen) ==
    [i \in 1..bytelen |-> (value \div Pow256(bytelen - i)) % 256]
RECURSIVE from_bytes(_)
from_bytes(b) ==
    IF b = <<>> THEN 0
    ELSE 256 * from_bytes(SubSeq(b, 1, Len(b) - 1)) + b[Len(b)]

(* DMRPFieldInt.__set__'s range test; the integers of the model are below  *)
(* 1 << 31, so below 1 << 32                                               *)
int_out_of_range(value, bytelen) ==
    ~(0 <= value /\ (bytelen >= 4 \/ value < Pow256(bytelen)))

(* DMRPFieldStr: value[:bytelen].ljust(bytelen, b' ') on the way in,       *)
(* strip(b'\x20\x00') and decode('ascii', errors='ignore') on the way out  *)
ljust(s, bytelen) ==
    [i \in 1..bytelen |-> IF i <= Len(s) THEN s[i] ELSE 32]
RECURSIVE lstrip(_)
lstrip(s) ==
    IF s # <<>> /\ s[1] \in {32, 0} THEN lstrip(Tail(s)) ELSE s
RECURSIVE rstrip(_)
rstrip(s) ==
    IF s # <<>> /\ s[Len(s)] \in {32, 0} THEN rstrip(SubSeq(s, 1, Len(s) - 1)) ELSE s
IsAscii(c) == c < 128
decode(s) == SelectSeq(s, IsAscii)

(* The value of field f as its descriptor's __get__ returns it *)
field_value(pkt, f) ==
    CASE f.kind = "int" -> from_bytes(field_get(pkt.data, f))
      [] f.kind = "str" -> decode(rstrip(lstrip(field_get(pkt.data, f))))
      [] OTHER -> field_get(pkt.data, f)

(* The bytes the descriptor's __set__ hands to DMRPFieldBase.set *)
field_bytes(f, value) ==
    CASE f.kind = "int" -> to_bytes(value, f.bytelen)
      [] f.kind = "str" -> ljust(value, f.bytelen)
      [] OTHER -> value

(* DMRPBasePacket.detect_by_data *)
startswith(d, prefix) ==
    Len(d) >= Len(prefix) /\ SubSeq(d, 1, Len(prefix)) = prefix
detect_by_data(cls, d) ==
    /\ ~(PKT_SIZE[cls] # 0 /\ PKT_SIZE[cls] # Len(d))
    /\ PKT_TYPE[cls] # <<>>
    /\ startswith(d, PKT_TYPE[cls])

fd_last_class(d) ==
    LET hits == {i \in 1..Len(FactoryClasses) : detect_by_data(FactoryClasses[i], d)}
    IN  IF hits = {} THEN [cls |-> "DMRPUnknownPacketTypeException", data |-> <<>>]
        ELSE [cls |-> FactoryClasses[CHOOSE i \in hits : \A j \in hits : i >= j],
              data |-> d]

(* AbstractFactory.from_data, reached by DMRPPacketFactory.fd: an object   *)
(* of the first class of the list that detects the bytes                   *)
fd(d) ==
    LET hits == {i \in 1..Len(FactoryClasses) : detect_by_data(FactoryClasses[i], d)}
    IN  IF hits = {} THEN [cls |-> "DMRPUnknownPacketTypeException", data |-> <<>>]
        ELSE [cls |-> FactoryClasses[CHOOSE i \in hits : \A j \in hits : i <= j],
              data |-> d]

(* The values the fields are set to: for an int field 1, the largest value *)
(* of the field (of 31 bits for a field of four bytes) and -1; for a bytes *)
(* field 0xFF bytes of the right length and of one less; for a str field   *)
(* "A", "A " and a string one longer than the field                        *)
FieldValues(f) ==
    CASE f.kind = "int" ->
           {1, IF f.bytelen >= 4 THEN 2147483647 ELSE Pow256(f.bytelen) - 1, -1}
      [] f.kind = "str" -> {<<65>>, <<65, 32>>, [i \in 1..(f.bytelen + 1) |-> 66]}
      [] OTHER -> {[i \in 1..f.bytelen |-> 255], [i \in 1..(f.bytelen - 1) |-> 255]}

(* cls(): a packet object of class cls is created *)
new_packet(cls) ==
    /\ made' = create(cls)
    /\ parsed' = NoPacket
    /\ result' = "None"
    /\ UNCHANGED <<dispatcher, lcs, vseq, fed, data>>

(* packet.<field> = value through the field's descriptor *)
set_field(f, value) ==
    /\ made # NoPacket
    /\ f \in Fields(made.cls)
    /\ IF (f.kind = "int" /\ int_out_of_range(value, f.bytelen))
          \/ (f.kind # "int" /\ field_set_raises(f, field_bytes(f, value)))
       THEN /\ result' = "DMRPFieldOutOfRangeException"
            /\ made' = made
       ELSE /\ result' = "None"
            /\ made' = [made EXCEPT !.data = field_set(@, f, field_bytes(f, value))]
    /\ parsed' = NoPacket
    /\ UNCHANGED <<dispatcher, lcs, vseq, fed, data>>

(* DMRPPacketFactory.fd(packet.get_data()) *)
parse ==
    /\ made # NoPacket
    /\ parsed' = fd(get_data(made))
    /\ result' = "None"
    /\ UNCHANGED <<dispatcher, lcs, vseq, fed, data, made>>

NextPackets ==
    \/ \E cls \in Classes : new_packet(cls)
    \/ \E cls \in Classes : \E f \in Fields(cls) : \E value \in FieldValues(f) :
          set_field(f, value)
    \/ parse

SpecPackets == Init /\ [][NextPackets]_vars

(* C21: for a packet of any class of the factory with its fields set to    *)
(* valid values, get_data() has PKT_SIZE bytes and the factory makes of    *)
(* them a packet of the same class whose fields have the same values.      *)
C21_FactoryRoundTrip ==
    [][parse
       => /\ Len(get_data(made)) = PKT_SIZE[made.cls]
          /\ parsed'.cls = made.cls
          /\ \A f \in Fields(made.cls) :
                field_value(parsed', f) = field_value(made, f)]_vars

----------------------------------------------------------------------------
(* One repeater with the clock, as in SpecTimed, that also sends RPTPING   *)
(* in whatever status it is, with its own id or another                    *)
KeepalivePings == {DMRPPacketPing(1), DMRPPacketPing(2)}

NextKeepalive ==
    \/ NextTimed
    \/ \E p \in KeepalivePings : recv_dg_peer("A", p, NoSalt)

SpecKeepalive == Init /\ [][NextKeepalive]_vars

(* C31: an RPTPING from an ACTIVE peer sets the peer's active_time to the  *)
(* time of the ping and changes nothing else of the peer, and exactly one  *)
(* MSTPONG with the peer's recorded peer_id is sent to it; an RPTPING from *)
(* a peer in any other status (a peer created for the datagram included)   *)
(* leaves the peer DEAD, and one MSTCL and no MSTPONG is sent to it.       *)
C31_PingPong ==
    [][\A p \in KeepalivePings :
          recv_dg_peer("A", p, NoSalt)
          => LET o == get_by_addr("A")
                 before == peers_after_get("A")[o]
             IN  IF before.status = "ACTIVE"
                 THEN /\ peers'[o] = [before EXCEPT !.active_time = now]
                      /\ sent' = <<Msg("A", DMRPPacketPong(before.peer_id))>>
                 ELSE /\ peers'[o].status = "DEAD"
                      /\ Len(sent') = 1
                      /\ sent'[1].addr = "A"
                      /\ sent'[1].p.type = "DMRPPacketMasterClose"]_vars

(* A ping with another id than the recorded one was answered, some time    *)
(* after the peer was last active, for a peer that has a unit              *)
C31_Witness ==
    /\ handled = "DMRPPacketPing"
    /\ now > 0
    /\ \E o \in Registered :
          /\ peers[o].status = "ACTIVE"
          /\ peers[o].active_time = now
          /\ peers[o].units # NoUnits
          /\ heard[o] = now
          /\ sent = <<Msg("A", DMRPPacketPong(1))>>

----------------------------------------------------------------------------
(* Distribution on the bytes of the packet (dispatcher.py, mmdvm_l1.py)    *)

(* Packet objects: p, the one recv_dg parsed, and the one p.copy() makes   *)
InboundRef == "p"
CopyRef == "sendp"

copy_same_object(heap, ref) == [ref |-> ref, heap |-> heap]

(* DMRPBasePacket.copy on the object ref of the heap: a new object of the  *)
(* same class whose _data is a copy of the bytes                           *)
copy(heap, ref) ==
    [ref |-> CopyRef,
     heap |-> (CopyRef :> [create(heap[ref].cls) EXCEPT !.data = heap[ref].data])
              @@ heap]

(* The peer_id field of the packet classes that are distributed *)
peer_id_field(cls) ==
    CHOOSE f \in Fields(cls) : f.name = "peer_id"

(* The loop of distribute_by_peers over the peers of targets (address and  *)
(* recorded peer_id of each, in iteration order), writing through sendp:   *)
(* the heap afterwards and the datagrams handed to the sender              *)
RECURSIVE send_copies(_, _, _, _)
send_copies(heap, sendp, orig_addr, targets) ==
    IF targets = <<>> THEN [heap |-> heap, out |-> <<>>]
    ELSE LET peer == Head(targets) IN
         IF orig_addr = peer.addr
         THEN send_copies(heap, sendp, orig_addr, Tail(targets))
         ELSE LET f == peer_id_field(heap[sendp].cls)
                  h1 == [heap EXCEPT ![sendp].data =
                            field_set(@, f, field_bytes(f, peer.peer_id))]
                  rest == send_copies(h1, sendp, orig_addr, Tail(targets))
              IN  [heap |-> rest.heap,
                   out |-> <<[addr |-> peer.addr, p |-> get_data(h1[sendp])]>>
                           \o rest.out]

(* The peers distribution iterates over: some of three peers, one of them  *)
(* at the address the packet came from, with the ids they have recorded    *)
(* (one of two bytes, one as large as the model's integers allow), in any  *)
(* order                                                                   *)
TargetPeers ==
    {[addr |-> "A", peer_id |-> 1], [addr |-> "B", peer_id |-> 258],
     [addr |-> "C", peer_id |-> 2147483647]}
TargetLists == UNION {Orders(S) : S \in SUBSET TargetPeers}

(* distribute_by_peers(p, orig_addr, peers) for the packet object made *)
distribute_bytes(orig_addr, targets) ==
    LET c == copy(InboundRef :> made, InboundRef)
        r == send_copies(c.heap, c.ref, orig_addr, targets)
    IN  /\ made.cls \in {"DMRPPacketData", "DMRPPacketTalkerAlias"}
        /\ made' = r.heap[InboundRef]
        /\ sent' = r.out
        /\ handled' = "distribute_by_peers"
        /\ log' = {}
        /\ error' = "none"
        /\ intercepted' = <<>>
        /\ parsed' = NoPacket
        /\ result' = "None"
        /\ UNCHANGED <<peer_auth, phase, now, ticks, peers, login_id, heard,
                       calls, calls_log, call, lcs, vseq, fed, data>>

(* The fields the packet arrives with set: peer_id and the fields next to  *)
(* it on either side (dst_id and bits in a DMRD, src_id in a DMRA)         *)
NeighbourFields(cls) ==
    {f \in Fields(cls) :
        \/ f.name \in {"peer_id", "dst_id", "bits"}
        \/ cls = "DMRPPacketTalkerAlias" /\ f.name = "src_id"}

NextCopies ==
    \/ \E cls \in {"DMRPPacketData", "DMRPPacketTalkerAlias"} : new_packet(cls)
    \/ \E cls \in {"DMRPPacketData", "DMRPPacketTalkerAlias"} :
          \E f \in NeighbourFields(cls) : \E value \in FieldValues(f) :
             set_field(f, value)
    \/ \E targets \in TargetLists : distribute_bytes("A", targets)

SpecCopies == Init /\ [][NextCopies]_vars

(* C32: each datagram distribution hands to the sender has the bytes of    *)
(* the inbound DMRD or DMRA at every offset outside the peer_id field, and *)
(* in the peer_id field the recorded peer_id of the peer it is sent to;    *)
(* the inbound packet object has the same bytes afterwards as before.      *)
C32_CopyWithTargetId ==
    [][\A targets \in TargetLists :
          distribute_bytes("A", targets)
          => LET f == peer_id_field(made.cls)
                 receivers == SelectSeq(targets, LAMBDA t : t.addr # "A")
             IN  /\ made' = made
                 /\ Len(sent') = Len(receivers)
                 /\ \A i \in 1..Len(sent') :
                       /\ sent'[i].addr = receivers[i].addr
                       /\ Len(sent'[i].p) = Len(made.data)
                       /\ \A k \in 1..Len(made.data) :
                             (k <= f.offset \/ k > f.offset + f.bytelen)
                             => sent'[i].p[k] = made.data[k]
                       /\ from_bytes(field_get(sent'[i].p, f))
                             = receivers[i].peer_id]_vars

(* A DMRD with a peer_id and a bits byte of its own was distributed to two  *)
(* peers with different ids                                                *)
C32_Witness ==
    /\ handled = "distribute_by_peers"
    /\ made.cls = "DMRPPacketData"
    /\ field_value(made, Field("peer_id", "int", 11, 4)) = 1
    /\ field_value(made, Field("bits", "int", 15, 1)) = 255
    /\ field_value(made, Field("dst_id", "int", 8, 3)) = 1
    /\ Len(sent) = 2
    /\ field_get(sent[1].p, peer_id_field(made.cls)) = <<0, 0, 1, 2>>
    /\ field_get(sent[2].p, peer_id_field(made.cls)) = <<127, 255, 255, 255>>

----------------------------------------------------------------------------
(* C33: no step takes a peer object of the registry from a status to one   *)
(* that comes earlier in LOGIN, AUTH, CONFIG, ACTIVE, DEAD: a peer's       *)
(* status stays or moves forward along the handshake or to DEAD, and the   *)
(* status of a DEAD peer does not change.                                  *)
C33_StatusOnlyForward ==
    [][\A o \in Registered \cap DOMAIN peers' :
          StatusRank[peers'[o].status] >= StatusRank[peers[o].status]]_vars

----------------------------------------------------------------------------
(* The factory on the datagrams a peer can send (dispatcher.py:100)        *)

(* Datagrams: a magic of some class, a part of one or none, followed by a  *)
(* fill byte up to a length that is some class's PKT_SIZE or none          *)
Magics ==
    {PKT_TYPE[cls] : cls \in Classes}
    \cup {<<>>, <<82, 80, 84>>, <<68, 77, 82>>, <<82, 80, 84, 65, 67>>}
FillBytes == {0, 32, 65, 67, 75, 76, 78, 255}
Lengths == {PKT_SIZE[cls] : cls \in Classes} \cup {0, 7, 12}
Datagrams ==
    {[i \in 1..n |-> IF i <= Len(m) THEN m[i] ELSE b] :
        m \in Magics, b \in FillBytes, n \in Lengths}

(* p = DMRPPacketFactory.fd(data) for a datagram d; the factory keeps     *)
(* nothing from one call to the next, and a behaviour makes one call       *)
factory_fd(d) ==
    /\ parsed = NoPacket
    /\ parsed' = fd(d)
    /\ made' = NoPacket
    /\ result' = "None"
    /\ UNCHANGED <<dispatcher, lcs, vseq, fed, data>>

NextFactory == \E d \in Datagrams : factory_fd(d)

SpecFactory == Init /\ [][NextFactory]_vars

(* The classes whose PKT_SIZE is the length of d and whose magic d starts  *)
(* with, by their place in the factory's list                              *)
Matching(d) ==
    {i \in 1..Len(FactoryClasses) :
        LET cls == FactoryClasses[i] IN
        /\ PKT_SIZE[cls] = Len(d)
        /\ \A k \in 1..Len(PKT_TYPE[cls]) : k <= Len(d) /\ d[k] = PKT_TYPE[cls][k]}

(* C34: for a datagram the factory returns a packet of the first class of  *)
(* its list whose PKT_SIZE is the datagram's length and whose magic the    *)
(* datagram starts with, holding the datagram's bytes, and raises          *)
(* DMRPUnknownPacketTypeException when there is no such class; a datagram  *)
(* of 10 bytes that starts with RPTACK gives a DMRPPacketAck.              *)
C34_FirstMatchWins ==
    [][\A d \in Datagrams :
          factory_fd(d)
          => /\ Matching(d) = {}
                => parsed'.cls = "DMRPUnknownPacketTypeException"
             /\ Matching(d) # {}
                => /\ \E i \in Matching(d) :
                         /\ \A j \in Matching(d) : i <= j
                         /\ parsed'.cls = FactoryClasses[i]
                   /\ parsed'.data = d
             /\ (Len(d) = 10 /\ SubSeq(d, 1, 6) = <<82, 80, 84, 65, 67, 75>>)
                => parsed'.cls = "DMRPPacketAck"]_vars

(* An RPTACK of 10 bytes with a payload that is not zero was parsed *)
C34_Witness ==
    /\ parsed.cls = "DMRPPacketAck"
    /\ parsed.data = <<82, 80, 84, 65, 67, 75, 255, 255, 255, 255>>

----------------------------------------------------------------------------
(* C35: the dispatch of a DMRD of stream S leaves in the active set a call *)
(* with call_id S, creates no call object with another call_id, and leaves *)
(* every call object with another call_id as it was (start_time,           *)
(* last_packet_time, end_time, packets, route_to and the rest) and in the  *)
(* sets it was in, whatever packets of other streams and peers came        *)
(* before.                                                                 *)
C35_StreamsIndependent ==
    [][\A a \in Addrs : \A p \in RoutingData(a) :
          (StatusOf(a) = "ACTIVE" /\ recv_dg_data(a, p))
          => /\ \E c \in calls' : call'[c].call_id = p.stream_id
             /\ \A c \in DOMAIN call' :
                   c \notin DOMAIN call => call'[c].call_id = p.stream_id
             /\ \A c \in DOMAIN call :
                   call[c].call_id # p.stream_id
                   => /\ c \in DOMAIN call'
                      /\ call'[c] = call[c]
                      /\ (c \in calls') = (c \in calls)
                      /\ (c \in calls_log') = (c \in calls_log)]_vars

(* A DMRD of one stream was dispatched while a call of the other stream,   *)
(* opened by another peer and routed, was in the active set                *)
C35_Witness ==
    /\ handled = "DMRPPacketData"
    /\ \E c1, c2 \in calls :
          /\ call[c1].call_id = 7
          /\ call[c2].call_id = 8
          /\ call[c1].peer_id # call[c2].peer_id
          /\ ~call[c2].route_to.isNone

----------------------------------------------------------------------------
(* C36: no handler of an inbound datagram, whatever the datagram and the   *)
(* state, ends in an exception that recv_dg does not handle; the DMRD of   *)
(* an ACTIVE peer, which goes through dispatch_data_packet, included.      *)
C36_RecvNeverRaises ==
    [][\A addr \in {"A", "B"} :
          /\ recv_dg_unparsed(addr, BadDatagram) => error' = "none"
          /\ \A p \in TrafficControl(addr) \cup TrafficData(addr)
                      \cup TalkerAliasPackets \cup {DMRPPacketLogin(PeerIdOf[addr])} :
                (\/ recv_dg_peer(addr, p, NoSalt)
                 \/ recv_dg_peer(addr, p, TheSalt)
                 \/ recv_dg_data(addr, p)
                 \/ recv_dg_ta(addr, p))
                => error' = "none"]_vars

----------------------------------------------------------------------------
(* The last statement of dispatch_data_packet on its own: the public       *)
(* method distribute_by_peers called for packet p from orig_addr with the  *)
(* route_to of the call c of the packet's stream                           *)
distribute_routed(orig_addr, p, c) ==
    /\ c \in by_call_id(p.stream_id)
    /\ \E order \in Orders(distribution_targets(peers, call[c].route_to)) :
          sent' = distribute_by_peers(peers, p, orig_addr, order)
    /\ handled' = "distribute_by_peers"
    /\ log' = {}
    /\ error' = "none"
    /\ intercepted' = <<>>
    /\ phase' = "running"
    /\ UNCHANGED <<peer_auth, now, ticks, peers, login_id, heard, calls,
                   calls_log, call>>
    /\ UNCHANGED codec

(* The repeaters of SpecRouting, and the distribution of their DMRD *)
NextRouted ==
    \/ NextRouting
    \/ \E addr \in Addrs : \E p \in RoutingData(addr) : \E c \in calls :
          /\ StatusOf(addr) = "ACTIVE"
          /\ distribute_routed(addr, p, c)

SpecRouted == Init /\ [][NextRouted]_vars

----------------------------------------------------------------------------
(* C38: when an RPTK takes a peer from AUTH to CONFIG, the peer_id the     *)
(* peer then has recorded is the id of the RPTL its salt was issued for    *)
(* (the one that passed the duplicate and allow checks): an RPTK with      *)
(* another id than the RPTL before it is not accepted under that id.       *)
C38_IdIsTheLoginId ==
    [][\A addr \in {"A", "B"} : \A p \in AuthPackets :
          LET o == get_by_addr(addr) IN
          (/\ HasAddr(addr)
           /\ peers[o].status = "AUTH"
           /\ recv_dg_peer(addr, p, NoSalt)
           /\ peers'[o].status = "CONFIG")
          => peers'[o].peer_id = login_id[o]]_vars

----------------------------------------------------------------------------
(* The repeater of SpecTimed with a clock that also advances by hours, so  *)
(* that calls grow older than CLEAN_LOG_TIMEOUT                            *)
LongTickSteps == {CLEAN_LOG_TIMEOUT - CLEAN_TIMEOUT, CLEAN_LOG_TIMEOUT}

NextAged ==
    \/ NextTimed
    \/ \E d \in LongTickSteps : Tick(d)

SpecAged == Init /\ [][NextAged]_vars

(* C39: in every reachable state each call of the active set is in the log *)
(* set.                                                                    *)
C39_ActiveCallsAreLogged ==
    /\ calls \subseteq calls_log
    /\ calls_log \subseteq DOMAIN call

(* An ended call that is still in the active set has grown old enough for *)
(* the next maintenance pass to drop it from the log                       *)
C39_Witness ==
    \E c \in calls :
       /\ c \in calls_log
       /\ is_ended(call[c])
       /\ to_be_cleaned_log(call[c], now)

----------------------------------------------------------------------------
(* C40: in every reachable state no two calls of the active set have the   *)
(* same call_id; a DMRD creates a call only when the active set holds no   *)
(* call of its stream_id, and otherwise, also when the call of the stream  *)
(* is ended and not yet cleaned, creates none and is counted on that call. *)
C40_OneCallPerStream ==
    /\ [](\A c1, c2 \in calls : call[c1].call_id = call[c2].call_id => c1 = c2)
    /\ [][\A p \in TimedData :
             (StatusOf("A") = "ACTIVE" /\ recv_dg_data("A", p))
             => IF by_call_id(p.stream_id) = {}
                THEN \E c \in calls' :
                        /\ c \notin DOMAIN call
                        /\ call'[c].call_id = p.stream_id
                        /\ calls' = calls \cup {c}
                ELSE /\ calls' = calls
                     /\ DOMAIN call' = DOMAIN call
                     /\ \A c \in by_call_id(p.stream_id) :
                           call'[c].packets = call[c].packets + 1]_vars

====
